---- MODULE Spec2Model ----
(***************************************************************************)
(* Admission-control and execution pipeline of the meta-transaction relay. *)
(* The repository holds two implementations of POST /relay:                *)
(*   - the Go relay        (src/main.go), one goroutine per request, two   *)
(*     mutex-guarded maps and a ticker-driven cleanupRoutine;              *)
(*   - the JS relay        (src/unnamed/part_002, relayer-server.js), one  *)
(*     event loop: the code between two awaits runs atomically.            *)
(* The variable impl, fixed by Init, says which of the two is running.     *)
(*                                                                         *)
(* Time is the wall clock in seconds (now).  The Go relay reads it with    *)
(* time.Now().Unix(); the JS relay reads Date.now(), in milliseconds.      *)
(* External collaborators (the ledger, the RPC node) are nondeterministic: *)
(* every answer the code distinguishes is a possible answer.               *)
(***************************************************************************)
EXTENDS Integers, Sequences, FiniteSets, TLC

(***************************************************************************)
(* Bounds of the model.                                                    *)
(***************************************************************************)
MaxInFlight == 2
MaxBurst == 7

(***************************************************************************)
(* Program constants.                                                      *)
(***************************************************************************)
\* Go relay, seconds
cacheDuration == 300
rateLimitWindow == 60
maxRequestsPerWindow == 5
cleanupInterval == 60
receiptTimeout == 120
\* gas limit used when the estimate fails (Go)
defaultGasLimit == 500000
\* JS relay, milliseconds
CACHE_DURATION == 5 * 60 * 1000
RATE_LIMIT_WINDOW == 60 * 1000
MAX_REQUESTS_PER_WINDOW == 5
\* fee ceiling, gwei (both relays)
MAX_GAS_PRICE == 100

(***************************************************************************)
(* Configuration: the relay's own identity and the target contract, as     *)
(* configured (mixed case), and the address strings requests may carry.    *)
(***************************************************************************)
NFT_CONTRACT == "0xNfT"
relayerAddress == "0xReL"

\* String.toLowerCase / canonical form of an address string
ToLower(s) ==
    CASE s = "0xNfT" -> "0xnft"
      [] s = "0xReL" -> "0xrel"
      [] s = "0xA1"  -> "0xa1"
      [] OTHER       -> s

\* common.Address.Hex(): one canonical string per 20-byte address, whatever
\* the letter case of the JSON text it was parsed from
Hex(a) == ToLower(a)

\* strings.EqualFold(a.Hex(), b.Hex())
bytes32Equal(a, b) == ToLower(Hex(a)) = ToLower(Hex(b))

\* keccak256 of the call data, as a 0x-prefixed lower-case hex string
Keccak256(c) ==
    CASE c = "0xc1" -> "0xh1"
      [] c = "0xc2" -> "0xh2"
      [] OTHER      -> "0xh0"

Absent == "absent"

(***************************************************************************)
(* Requests.                                                               *)
(***************************************************************************)
Senders == {"0xa1", "0xb2"}
Nonces == {1, 2}
Targets == {"0xnft", "0xbad"}
Callers == {"0xrel", "0xbad"}
DataHashes == {"0xh1", "0xh2", Absent}
Deadlines == {60, 3600}
Signatures == {"", "0xs1", "0xs2"}
CallDatas == {"0xc1"}
Spaces == {0, 1}

MalformedBody ==
    [shape |-> "malformed", from |-> "", to |-> "", space |-> 0, nonce |-> 0, deadline |-> 0,
     dataHash |-> Absent, caller |-> "", signature |-> "", callData |-> ""]

\* a JSON body without the forward member
NoForwardBody ==
    [MalformedBody EXCEPT !.shape = "noforward", !.signature = "0xs1", !.callData = "0xc1"]

Authorizations ==
    [shape : {"ok"}, from : Senders, to : Targets, space : Spaces, nonce : Nonces,
     deadline : Deadlines, dataHash : DataHashes, caller : Callers,
     signature : Signatures, callData : CallDatas]

\* an authorization every local gate lets through
WellFormed(r) ==
    /\ r.shape = "ok"
    /\ r.signature # ""
    /\ r.callData # ""
    /\ ToLower(r.to) = ToLower(NFT_CONTRACT)
    /\ ToLower(r.caller) = ToLower(relayerAddress)
    /\ r.dataHash = Keccak256(r.callData)

NoRequest == [MalformedBody EXCEPT !.shape = "none"]

(***************************************************************************)
(* Workloads.  A scenario fixes how many handlers run concurrently and,    *)
(* for each arrival in turn, the set of requests it is drawn from:         *)
(*   "gates" : a valid request, then any request at all, one at a time;    *)
(*   "race"  : two valid requests of one sender, served concurrently;      *)
(*   "replay": the same valid request three times, or with its nonce in    *)
(*             another space, over six minutes;                            *)
(*   "burst" : a burst of requests of two senders, as in testRateLimit;    *)
(*   "drain" : one valid request, whose caller may hang up, while the      *)
(*             relay may be told to terminate;                             *)
(*   "case"  : a valid request, then the same with its addresses in upper  *)
(*             case letters.                                               *)
(***************************************************************************)
Scenarios == {"gates", "race", "replay", "burst", "drain", "case"}

BaseRequest ==
    [shape |-> "ok", from |-> "0xa1", to |-> "0xnft", space |-> 0, nonce |-> 1,
     deadline |-> 3600,
     dataHash |-> "0xh1", caller |-> "0xrel", signature |-> "0xs1", callData |-> "0xc1"]

\* a forward member without the field to
MissingTo == [BaseRequest EXCEPT !.to = Absent]

\* the same addresses, written with upper case letters
MixedCase == [BaseRequest EXCEPT !.from = "0xA1", !.to = "0xNfT", !.caller = "0xReL"]

\* an authorization whose deadline is one second before the second instant
JustExpired == [BaseRequest EXCEPT !.deadline = 59]

GateAlphabet ==
    {r \in Authorizations : r.from = "0xa1" /\ r.space = 0}
        \cup {MalformedBody, NoForwardBody, MissingTo, JustExpired}

RaceAlphabet ==
    {[BaseRequest EXCEPT !.from = k[1], !.nonce = k[2]] :
        k \in {<<"0xa1", 1>>, <<"0xa1", 2>>}}

\* the same authorization again, or the same sender and nonce in another space
ReplayAlphabet == {[BaseRequest EXCEPT !.space = sp] : sp \in Spaces}

BurstAlphabet ==
    {[BaseRequest EXCEPT !.from = f, !.caller = "0xbad"] : f \in Senders}

\* requests of two senders that pass every gate
LockAlphabet == {[BaseRequest EXCEPT !.from = f] : f \in Senders}

\* scenario "locks" (specification LockSpec): as many requests of one sender
\* as fill its window, then one more of either sender, served concurrently
MaxLockArrivals == maxRequestsPerWindow + 1

(***************************************************************************)
(* The client library (meta-exec-lib): prepareForward.                     *)
(***************************************************************************)
\* the parameters of a call; deadline -1: undefined
PrepareInputs ==
    [from : Senders, to : Targets, value : {0}, space : {0}, nonce : Nonces,
     deadline : {-1, 3600}, callData : {"", "0xc1", "0xc2"}, hasCaller : BOOLEAN,
     caller : Callers]

\* deadlineSec || 600
defaultDeadlineSec == 600

NotPrepared == [built |-> FALSE]

\* prepareForward, lines 38-122, called at time t; built is FALSE when it throws
prepareForward(in, t) ==
    IF in.callData = "" THEN NotPrepared
    ELSE LET dataHash == Keccak256(in.callData)
             finalDeadline == IF in.deadline # -1 THEN in.deadline
                              ELSE t + defaultDeadlineSec
         IN [built |-> TRUE,
             message |->
                IF in.hasCaller
                THEN [from |-> in.from, to |-> in.to, value |-> in.value, space |-> in.space,
                      nonce |-> in.nonce, deadline |-> finalDeadline,
                      dataHash |-> dataHash, caller |-> in.caller]
                ELSE [from |-> in.from, to |-> in.to, value |-> in.value, space |-> in.space,
                      nonce |-> in.nonce, deadline |-> finalDeadline,
                      dataHash |-> dataHash],
             fTuple |->
                IF in.hasCaller
                THEN <<in.from, in.to, in.value, in.space, in.nonce, finalDeadline, dataHash,
                       in.caller>>
                ELSE <<in.from, in.to, in.value, in.space, in.nonce, finalDeadline, dataHash>>,
             callData |-> in.callData,
             dataHash |-> dataHash]

\* abis.js, lines 8-9: the types of the tuple that execute takes
EXECUTE_SIG ==
    <<"address", "address", "uint256", "uint32", "uint256", "uint256", "bytes32", "address">>

Field(message, name) == IF name \in DOMAIN message THEN message[name] ELSE Absent

\* the body of POST /relay: forward is the message, signature what signForward
\* returned for it
Assemble(p) ==
    [shape |-> "ok", from |-> p.message.from, to |-> p.message.to,
     space |-> p.message.space, nonce |-> p.message.nonce,
     deadline |-> p.message.deadline, dataHash |-> p.message.dataHash,
     caller |-> Field(p.message, "caller"), signature |-> "0xs1",
     callData |-> p.callData]

\* scenario "prepare" (specification PrepareSpec): the requests a client can
\* assemble from what prepareForward returns
PreparedRequests ==
    {Assemble(prepareForward(in, 0)) : in \in {x \in PrepareInputs : x.callData # ""}}

\* scenario "exec" (specification ExecSpec): valid requests that differ in the
\* sender or in the nonce, served concurrently
ExecAlphabet ==
    {[BaseRequest EXCEPT !.from = k[1], !.nonce = k[2]] :
        k \in {<<"0xa1", 1>>, <<"0xa1", 2>>, <<"0xb2", 1>>}}

Script(sc) ==
    CASE sc = "gates" -> <<{BaseRequest}, GateAlphabet>>
      [] sc = "race"  -> <<RaceAlphabet, RaceAlphabet>>
      [] sc = "replay" -> <<{BaseRequest}, ReplayAlphabet, ReplayAlphabet>>
      [] sc = "burst" -> [k \in 1..MaxBurst |->
                            IF k <= maxRequestsPerWindow
                            THEN {r \in BurstAlphabet : r.from = BaseRequest.from}
                            ELSE BurstAlphabet]
      [] sc = "drain" -> <<{BaseRequest}, {BaseRequest}>>
      [] sc = "case"  -> <<{BaseRequest}, {MixedCase}>>
      [] sc = "exec"  -> <<ExecAlphabet, ExecAlphabet>>
      [] sc = "prepare" -> <<PreparedRequests>>
      [] sc = "locks" -> [k \in 1..MaxLockArrivals |->
                            IF k < MaxLockArrivals THEN {BaseRequest} ELSE LockAlphabet]

Concurrency(sc) ==
    IF sc \in {"gates", "replay", "drain", "case", "prepare"} THEN 1 ELSE MaxInFlight

\* the instants (seconds since the relay started) at which the scenario is
\* observed: the clock steps from one to the next
Instants(sc) ==
    CASE sc = "replay" -> {0, 60, 300, 360}
      [] sc = "gates"  -> {0, 60, 120}
      [] sc = "drain"  -> {0, 60, 120}
      [] sc = "prepare" -> {0}
      [] OTHER         -> {0, 60}

(***************************************************************************)
(* Responses: HTTP status and the error string of the body.                *)
(***************************************************************************)
NoResponse == [status |-> 0, error |-> ""]
Reply(st, msg) == [status |-> st, error |-> msg]

E_BODY == "Invalid request body"
E_MISSING == "Missing required fields: forward, signature, callData"
E_RATE == "Too many requests. Please try again later."
E_DUP == "This request has already been processed"
E_TARGET == "Invalid target contract"
E_CALLER == "Invalid caller address"
E_HASH == "DataHash mismatch - signature invalid"
E_EXPIRED == "Transaction deadline expired"
E_MINTED_GO == "You already minted an NFT"
E_MINTED_JS == "    ed an NFT"
E_PROBE == "Failed to verify minting status"
E_FEE == "Network gas prices too high. Please try again later."
\* no response: the handler goroutine panics, net/http recovers and closes the
\* connection
Aborted == [status |-> 0, error |-> "panic"]
E_INTERNAL == "Internal server error"

(***************************************************************************)
(* Lower-layer error texts, as the set of the classifier's patterns that   *)
(* occur in the text.                                                      *)
(***************************************************************************)
RpcErrors == { {}, {"insufficient funds"}, {"nonce"} }

\* parseError (Go) and the catch block (JS): first matching pattern wins
parseError(e) ==
    IF "Already minted" \in e THEN "This address has already minted an NFT"
    ELSE IF "insufficient funds" \in e THEN "Relayer has insufficient funds"
    ELSE IF "nonce" \in e THEN "Invalid nonce or nonce already used"
    ELSE IF "signature" \in e THEN "Invalid signature"
    ELSE IF "deadline" \in e THEN "Transaction deadline expired"
    ELSE IF "dataHash" \in e THEN "Invalid data hash"
    ELSE IF "caller" \in e THEN "Invalid caller address"
    ELSE "Transaction failed"

(***************************************************************************)
(* State.                                                                  *)
(***************************************************************************)
VARIABLES
    verbose,            \* JS: NODE_ENV === 'development' (the Go relay has no such setting)
    impl,               \* "go" or "js": which relay is running
    scenario,           \* the workload offered to the relay, see Script
    now,                \* wall clock, seconds since the relay started
    arrivals,           \* number of requests received so far
    pc,                 \* per handler: position in the handler
    req,                \* per handler: the request being served
    resp,               \* per handler: the response written, once done
    waitStart,          \* per handler: when the confirmation wait began (Go)
    rateLimits,         \* rateLimit.requests (Go) / rateLimits (JS): address -> timestamps
    processedRequests,  \* processedRequests: requestID -> time of insertion
    timers,             \* JS: pending setTimeout(delete) callbacks, [key, at]
    sweepAt,            \* Go cleanupRoutine: -1 when idle, else the `now` of the pass
    \* history variables: written, never read, by the relay's actions
    sent,               \* per handler: its transaction has been submitted
    marked,             \* per handler: it has inserted its requestID
    evaluated,          \* per handler: the gates evaluated so far, in order
    prior,              \* per handler, fixed at arrival: the arrival time, the time of
                        \* the latest earlier Executor invocation for its requestID and
                        \* the latest time at which a request of that requestID was
                        \* received that has been answered Confirmed, and the time
                        \* recorded for its requestID in the cache (-1: none)
    lastAdmit,          \* requestID -> time of the latest Executor invocation
    confirmedAt,        \* requestID -> latest time of receipt of a request that was
                        \* answered Confirmed
    admitLog,           \* sender -> times at which the rate limiter admitted a request
    recorded,           \* the (from, space, nonce) triples of the requests that
                        \* inserted their requestID in the cache
    answers,            \* per handler: what the network answered it (the probe, the
                        \* fee, the gas estimate, the receipt), how many transactions
                        \* it submitted and with which gas limit
    body,               \* per handler: the rest of the response body (success,
                        \* details, the fields of a success response)
    \* the world around the relay
    connected,          \* per handler: the caller's HTTP connection is still open
    lifecycle,          \* "serving"; "shutdown" once the Go relay was signalled and
                        \* srv.Shutdown runs; "exited" once the process is gone
    \* the Go relay's cache operations step by step (specification LockSpec)
    mutex,              \* the goroutines holding rateLimit.mu, reqMutex for writing
                        \* and reqMutex for reading
    local,              \* per handler: recentRequests of checkRateLimit
    sweeper,            \* cleanupRoutine: its position and the addresses the
                        \* rate-limit pass has still to visit
    \* the Go relay's Executor step by step (specification ExecSpec)
    pendingCount,       \* the network's count of the relay account's transactions,
                        \* pending ones included
    relayerNonce,       \* per handler: nonce of executeMetaTransaction (-1: not read)
    \* the client library (specification PrepareSpec)
    prepared            \* per handler: what prepareForward returned to the client
                        \* whose request the handler serves

vars == <<verbose, impl, scenario, now, arrivals, pc, req, resp, waitStart, rateLimits,
          processedRequests, timers, sweepAt, sent, marked, evaluated, prior,
          lastAdmit, confirmedAt, admitLog, recorded, answers, body,
          connected, lifecycle, mutex, local, sweeper, pendingCount, relayerNonce,
          prepared>>

Handlers == 1..MaxInFlight

EmptyMap == [x \in {} |-> 0]
Has(m, k) == k \in DOMAIN m
Get(m, k, d) == IF k \in DOMAIN m THEN m[k] ELSE d
Put(m, k, v) == [x \in (DOMAIN m) \cup {k} |-> IF x = k THEN v ELSE m[x]]
Drop(m, ks) == [x \in (DOMAIN m) \ ks |-> m[x]]

\* Date.now()
DateNow == now * 1000

\* variant: the JS relay builds its key from the canonical form as well
RequestID_Canonical(m, r) == <<Hex(r.from), r.nonce>>
\* requestID := fmt.Sprintf("%s-%s", userAddress.Hex(), nonce)   (Go)
\* requestId = `${userAddress}-${forward.nonce}`                 (JS)
RequestID(m, r) == IF m = "go" THEN <<Hex(r.from), r.nonce>> ELSE <<r.from, r.nonce>>

\* the slot of an authorization: Forward.From, Forward.Space, Forward.Nonce
Slot(r) == <<ToLower(r.from), r.space, r.nonce>>

\* the key of the sender's rate window
RateKey(m, r) == IF m = "go" THEN Hex(r.from) ELSE r.from

NoPrior == [at |-> 0, admit |-> -1, ok |-> -1, rec |-> -1]

NoAnswers ==
    [probe |-> <<>>, fee |-> <<>>, sends |-> 0, receipt |-> <<>>,
     estimate |-> <<>>, gasLimit |-> <<>>]

\* RelayResponse beyond status and error.  details is <<>> when the field is
\* absent, else <<e>> with e the raw text of the underlying error.
NoDetails == <<>>
NoBody == [success |-> FALSE, details |-> NoDetails, fields |-> {}]
\* sendError, lines 848-852 (Details has omitempty)
ErrorBody(details) == [success |-> FALSE, details |-> details, fields |-> {}]
\* lines 534-541; part_002 lines 202-208
\* Go: sendError is handed err.Error()
GoDetails(e) == <<e>>
\* JS, line 235: process.env.NODE_ENV === 'development' ? error.message : undefined
JsDetails(e) == IF verbose THEN <<e>> ELSE NoDetails
\* the text of an error of the network that names no cause parseError knows
PlainError == {}
\* variant: the gas used is left out
SuccessBody_NoGas ==
    [success |-> TRUE, details |-> NoDetails, fields |-> {"txHash", "blockNumber"}]
\* lines 534-541; part_002 lines 202-208
SuccessBody ==
    [success |-> TRUE, details |-> NoDetails, fields |-> {"txHash", "blockNumber", "gasUsed"}]

\* the goroutine of cleanupRoutine, beside the handlers 1..MaxInFlight
Cleaner == 0

\* the relay after construction
Start ==
    /\ now = 0
    /\ arrivals = 0
    /\ pc = [i \in Handlers |-> "idle"]
    /\ req = [i \in Handlers |-> NoRequest]
    /\ resp = [i \in Handlers |-> NoResponse]
    /\ waitStart = [i \in Handlers |-> 0]
    /\ rateLimits = EmptyMap
    /\ processedRequests = EmptyMap
    /\ timers = {}
    /\ sweepAt = -1
    /\ sent = [i \in Handlers |-> FALSE]
    /\ marked = [i \in Handlers |-> FALSE]
    /\ evaluated = [i \in Handlers |-> <<>>]
    /\ prior = [i \in Handlers |-> NoPrior]
    /\ lastAdmit = EmptyMap
    /\ confirmedAt = EmptyMap
    /\ admitLog = EmptyMap
    /\ recorded = {}
    /\ answers = [i \in Handlers |-> NoAnswers]
    /\ body = [i \in Handlers |-> NoBody]
    /\ connected = [i \in Handlers |-> TRUE]
    /\ lifecycle = "serving"
    /\ mutex = [rate |-> {}, reqW |-> {}, reqR |-> {}]
    /\ local = [i \in Handlers |-> <<>>]
    /\ sweeper = [at |-> "idle", todo |-> {}]
    /\ pendingCount = 0
    /\ relayerNonce = [i \in Handlers |-> -1]
    /\ prepared = [i \in Handlers |-> NotPrepared]

Init ==
    /\ impl \in {"go", "js"}
    /\ scenario \in Scenarios
    /\ verbose \in BOOLEAN
    /\ impl = "go" => ~verbose
    /\ Start

\* the variables of the step-by-step Executor
Chain == <<pendingCount, relayerNonce>>

\* the variables of the client library
Client == <<prepared>>

\* the variables of the step-by-step cache operations and Executor, and of the
\* client library
Fine == <<mutex, local, sweeper, Chain, Client>>

Environment == <<connected, lifecycle>>

\* the process is running: nothing of the relay runs after its exit
Alive == lifecycle # "exited"
Config == <<impl, scenario, verbose>>
Caches == <<rateLimits, processedRequests, timers>>
HandlerHistory == <<sent, marked, evaluated, prior, answers, body>>
GlobalHistory == <<lastAdmit, confirmedAt, admitLog, recorded>>

(***************************************************************************)
(* Environment: the clock and the arrival of requests.                     *)
(***************************************************************************)
\* JS timers that are due; Node runs them before it serves further I/O
DueTimers == {t \in timers : t.at <= DateNow}

\* The clock steps from one instant of the scenario to the next.  Positions a
\* handler leaves within a fraction of a minute (the in-memory gates, a single
\* query of the node) are not held across a step; the Executor and the
\* confirmation wait are.
SlowPositions == {"idle", "done", "exec", "wait"}

Positions == {"idle", "recv", "dup", "deadline", "probe", "fee", "exec", "sent", "wait",
              "mark", "done"}


LaterInstants == {t \in Instants(scenario) : t > now}

Tick ==
    /\ Alive
    /\ LaterInstants # {}
    /\ DueTimers = {}
    /\ \A i \in Handlers : pc[i] \in SlowPositions
    /\ sweepAt = -1
    /\ now' = CHOOSE t \in LaterInstants : \A u \in LaterInstants : t <= u
    /\ UNCHANGED <<Config, Fine, Environment, arrivals, pc, req, resp, waitStart, Caches, sweepAt,
                   HandlerHistory, GlobalHistory>>

\* the requests the workload may send next
NextRequests ==
    IF arrivals < Len(Script(scenario)) THEN Script(scenario)[arrivals + 1] ELSE {}

\* a POST /relay request reaches a free handler
Arrive(i, r) ==
    /\ lifecycle = "serving"
    /\ i <= Concurrency(scenario)
    /\ pc[i] \in {"idle", "done"}
    /\ arrivals < Len(Script(scenario))
    /\ r \in Script(scenario)[arrivals + 1]
    /\ arrivals' = arrivals + 1
    /\ pc' = [pc EXCEPT ![i] = "recv"]
    /\ req' = [req EXCEPT ![i] = r]
    /\ resp' = [resp EXCEPT ![i] = NoResponse]
    /\ waitStart' = [waitStart EXCEPT ![i] = 0]
    /\ sent' = [sent EXCEPT ![i] = FALSE]
    /\ marked' = [marked EXCEPT ![i] = FALSE]
    /\ evaluated' = [evaluated EXCEPT ![i] = <<>>]
    /\ prior' = [prior EXCEPT ![i] =
                    IF r.shape = "ok"
                    THEN [at |-> now,
                          admit |-> Get(lastAdmit, RequestID(impl, r), -1),
                          ok |-> Get(confirmedAt, RequestID(impl, r), -1),
                          rec |-> Get(processedRequests, RequestID(impl, r), -1)]
                    ELSE [NoPrior EXCEPT !.at = now]]
    /\ answers' = [answers EXCEPT ![i] = NoAnswers]
    /\ body' = [body EXCEPT ![i] = NoBody]
    /\ connected' = [connected EXCEPT ![i] = TRUE]
    /\ UNCHANGED <<Config, Fine, lifecycle, now, Caches, sweepAt, GlobalHistory>>

\* One step of a handler: the gates it evaluated, what the network answered,
\* and either the response (with the rest of its body) that ends the request
\* or the position it goes on to.
Respond(i, gates, r, next, heard, b) ==
    /\ evaluated' = [evaluated EXCEPT ![i] = @ \o gates]
    /\ answers' = [answers EXCEPT ![i] = heard]
    /\ IF r # NoResponse
       THEN /\ pc' = [pc EXCEPT ![i] = "done"]
            /\ resp' = [resp EXCEPT ![i] = r]
            /\ body' = [body EXCEPT ![i] = b]
       ELSE pc' = [pc EXCEPT ![i] = next] /\ UNCHANGED <<resp, body>>

\* a step that hears nothing from the network and, if it ends the request,
\* answers without details
Step(i, gates, r, next) == Respond(i, gates, r, next, answers[i], ErrorBody(NoDetails))

\* A chain of gates is a sequence of <<name, response>> pairs in the order the
\* code tests them, the response being NoResponse where the gate passes.  The
\* handler returns at the first failing one.
FirstFailure(chain) ==
    LET failing == {k \in 1..Len(chain) : chain[k][2] # NoResponse}
    IN IF failing = {} THEN 0
       ELSE CHOOSE k \in failing : \A l \in failing : k <= l

RunChain(chain) ==
    LET f == FirstFailure(chain)
        last == IF f = 0 THEN Len(chain) ELSE f
    IN [gates |-> [k \in 1..last |-> chain[k][1]],
        resp |-> IF f = 0 THEN NoResponse ELSE chain[f][2]]

(***************************************************************************)
(* The rate limiter.                                                       *)
(***************************************************************************)
\* variant: an entry exactly one window old still counts
recentRequests_Inclusive(requests, t) ==
    SelectSeq(requests, LAMBDA reqTime : t - reqTime <= rateLimitWindow)
\* Go checkRateLimit: the entries the filter loop keeps
recentRequests(requests, t) ==
    SelectSeq(requests, LAMBDA reqTime : t - reqTime < rateLimitWindow)

\* variant: rejects only above the limit
checkRateLimit_OffByOne(m, address, t) ==
    ~(Len(recentRequests(Get(m, address, <<>>), t)) > maxRequestsPerWindow)
\* Go checkRateLimit: the boolean returned
checkRateLimit(m, address, t) ==
    ~(Len(recentRequests(Get(m, address, <<>>), t)) >= maxRequestsPerWindow)

\* variant: the list written is shared by every sender of the map
checkRateLimitMap_SharedWindow(m, address, t) ==
    IF checkRateLimit(m, address, t)
    THEN [a \in (DOMAIN m) \cup {address} |->
             Append(recentRequests(Get(m, address, <<>>), t), t)]
    ELSE m
\* variant: a rejected request is recorded as well
checkRateLimitMap_CountsRejected(m, address, t) ==
    Put(m, address, Append(recentRequests(Get(m, address, <<>>), t), t))
\* Go checkRateLimit: the map it leaves behind
checkRateLimitMap(m, address, t) ==
    IF checkRateLimit(m, address, t)
    THEN Put(m, address, Append(recentRequests(Get(m, address, <<>>), t), t))
    ELSE m

\* JS checkRateLimit
jsRecentRequests(userLimits, t) ==
    SelectSeq(userLimits, LAMBDA time : t - time < RATE_LIMIT_WINDOW)

jsCheckRateLimit(m, address, t) ==
    ~(Len(jsRecentRequests(Get(m, address, <<>>), t)) >= MAX_REQUESTS_PER_WINDOW)

jsCheckRateLimitMap(m, address, t) ==
    IF jsCheckRateLimit(m, address, t)
    THEN Put(m, address, Append(jsRecentRequests(Get(m, address, <<>>), t), t))
    ELSE m

\* history: the limiter admitted a request of this sender now
LogAdmission(address) == Put(admitLog, address, Append(Get(admitLog, address, <<>>), now))

(***************************************************************************)
(* The gates before the first network call.                                *)
(***************************************************************************)
Gate(name, rejected, r) == <<name, IF rejected THEN r ELSE NoResponse>>

\* Go: isProcessed
isProcessed(m, requestID) == Has(m, requestID)

\* Go relayHandler, lines 368-403: decode, then the required fields, then
\* req.Forward.Deadline.Int64(), a nil *big.Int when forward is missing
GoValidate(r) ==
    IF r.shape = "malformed" THEN Reply(400, E_BODY)
    ELSE IF r.signature = "" \/ r.callData = "" THEN Reply(400, E_MISSING)
    ELSE IF r.shape = "noforward" THEN Aborted
    ELSE NoResponse

\* line 371: the decoder's error text goes into details
GoChainDetails(r) == IF r = Reply(400, E_BODY) THEN GoDetails(PlainError) ELSE NoDetails

\* Go relayHandler, lines 368-413: validation, then checkRateLimit
GoAdmissionChain(r, limits, t) ==
    << <<"validator", GoValidate(r)>>,
       Gate("rate", ~checkRateLimit(limits, Hex(r.from), t), Reply(429, E_RATE)) >>

\* variant: the caller is verified before the target
GoLocalChain_CallerFirst(r, processed) ==
    << Gate("dup", isProcessed(processed, RequestID("go", r)), Reply(400, E_DUP)),
       Gate("caller", ~bytes32Equal(r.caller, relayerAddress), Reply(400, E_CALLER)),
       Gate("target", ~bytes32Equal(r.to, NFT_CONTRACT), Reply(400, E_TARGET)),
       Gate("hash",
            Keccak256(r.callData) #
                (IF r.dataHash = Absent THEN "0x00" ELSE ToLower(r.dataHash)),
            Reply(400, E_HASH)) >>
\* Go relayHandler, lines 415-470: duplicate, target, caller, dataHash
GoLocalChain(r, processed) ==
    << Gate("dup", isProcessed(processed, RequestID("go", r)), Reply(400, E_DUP)),
       Gate("target", ~bytes32Equal(r.to, NFT_CONTRACT), Reply(400, E_TARGET)),
       Gate("caller", ~bytes32Equal(r.caller, relayerAddress), Reply(400, E_CALLER)),
       Gate("hash",
            Keccak256(r.callData) #
                (IF r.dataHash = Absent THEN "0x00" ELSE ToLower(r.dataHash)),
            Reply(400, E_HASH)) >>

\* variant: a request is refused in the second of its deadline
GoDeadlineChain_Inclusive(r, t) ==
    << Gate("deadline", t >= r.deadline, Reply(400, E_EXPIRED)) >>
\* variant: the deadline is taken for milliseconds
GoDeadlineChain_Millis(r, t) ==
    << Gate("deadline", t > r.deadline * 1000, Reply(400, E_EXPIRED)) >>
\* Go relayHandler, lines 472-484
GoDeadlineChain(r, t) ==
    << Gate("deadline", t > r.deadline, Reply(400, E_EXPIRED)) >>

\* JS: express.json() and lines 63-71; a body that is not JSON is answered by
\* the error middleware of lines 272-278
JsValidate(r) ==
    IF r.shape = "malformed" THEN Reply(500, E_INTERNAL)
    ELSE IF r.shape = "noforward" \/ r.signature = "" \/ r.callData = ""
    THEN Reply(400, E_MISSING)
    ELSE NoResponse

\* lines 210-236: a response of the catch block carries error.message when verbose
JsChainDetails(r) ==
    IF r = Reply(500, parseError(PlainError)) THEN JsDetails(PlainError) ELSE NoDetails

\* JS app.post('/relay'), lines 63-86: validation, then checkRateLimit
JsAdmissionChain(r, limits, t) ==
    << <<"validator", JsValidate(r)>>,
       Gate("rate", ~jsCheckRateLimit(limits, r.from, t), Reply(429, E_RATE)) >>

\* variant: the caller is compared as written
JsLocalChain_CaseSensitive(r, processed, t) ==
    << Gate("dup", Has(processed, RequestID("js", r)), Reply(400, E_DUP)),
       Gate("target", r.to = Absent \/ ToLower(r.to) # ToLower(NFT_CONTRACT),
            IF r.to = Absent THEN Reply(500, parseError(PlainError))
            ELSE Reply(400, E_TARGET)),
       Gate("caller", r.caller # relayerAddress,
            IF r.caller = Absent THEN Reply(500, parseError(PlainError))
            ELSE Reply(400, E_CALLER)),
       Gate("hash",
            r.dataHash # Absent /\ r.dataHash # ""
               /\ ToLower(Keccak256(r.callData)) # ToLower(r.dataHash),
            Reply(400, E_HASH)),
       Gate("deadline", (t \div 1000) > r.deadline, Reply(400, E_EXPIRED)) >>
\* JS app.post('/relay'), lines 88-136: duplicate, target, caller, dataHash, deadline;
\* forward.to.toLowerCase() and forward.caller.toLowerCase() throw when the
\* field is missing, and the catch block of lines 210-236 answers
JsLocalChain(r, processed, t) ==
    << Gate("dup", Has(processed, RequestID("js", r)), Reply(400, E_DUP)),
       Gate("target", r.to = Absent \/ ToLower(r.to) # ToLower(NFT_CONTRACT),
            IF r.to = Absent THEN Reply(500, parseError(PlainError))
            ELSE Reply(400, E_TARGET)),
       Gate("caller", r.caller = Absent \/ ToLower(r.caller) # ToLower(relayerAddress),
            IF r.caller = Absent THEN Reply(500, parseError(PlainError))
            ELSE Reply(400, E_CALLER)),
       Gate("hash",
            r.dataHash # Absent /\ r.dataHash # ""
               /\ ToLower(Keccak256(r.callData)) # ToLower(r.dataHash),
            Reply(400, E_HASH)),
       Gate("deadline", (t \div 1000) > r.deadline, Reply(400, E_EXPIRED)) >>

(***************************************************************************)
(* Answers of the external collaborators.                                  *)
(***************************************************************************)
ProbeAnswers == {"no", "yes", "error"}
FeeAnswers == {99, 100, 101, -1}            \* gwei; -1: the fetch failed
ReceiptAnswers == {"success", "reverted"}
\* the node's gas estimate; -1: the estimation failed.  The estimate varies
\* in scenario "drain".
EstimateAnswers == IF scenario = "drain" THEN {21001, 100000, -1} ELSE {100000}

\* the handler is handed to the Executor
Admit(i, heard) ==
    /\ Respond(i, <<"fee", "executor">>, NoResponse, "exec", heard, NoBody)
    /\ lastAdmit' = Put(lastAdmit, RequestID(impl, req[i]), now)

\* the 200 response
Confirmed(i, heard) ==
    /\ Respond(i, <<>>, Reply(200, ""), "done", heard, SuccessBody)
    /\ confirmedAt' = IF Get(confirmedAt, RequestID(impl, req[i]), -1) >= prior[i].at
                      THEN confirmedAt
                      ELSE Put(confirmedAt, RequestID(impl, req[i]), prior[i].at)

(***************************************************************************)
(* Go relay: relayHandler, one goroutine per request.  Steps are separated *)
(* where the handler takes a lock, reads the clock or calls the network.   *)
(***************************************************************************)
\* lines 368-413: decode, required fields, checkRateLimit (under rateLimit.mu)
GoRateLimit(i) ==
    /\ impl = "go" /\ pc[i] = "recv" /\ Alive
    /\ LET run == RunChain(GoAdmissionChain(req[i], rateLimits, now))
       IN /\ Respond(i, run.gates, run.resp, "dup", answers[i],
                     ErrorBody(GoChainDetails(run.resp)))
          /\ IF GoValidate(req[i]) = NoResponse
             THEN rateLimits' = checkRateLimitMap(rateLimits, Hex(req[i].from), now)
             ELSE UNCHANGED rateLimits
          /\ IF run.resp = NoResponse
             THEN admitLog' = LogAdmission(Hex(req[i].from))
             ELSE UNCHANGED admitLog
    /\ UNCHANGED <<Config, Fine, Environment, now, arrivals, req, waitStart, processedRequests, timers, sweepAt,
                   sent, marked, prior, lastAdmit, confirmedAt, recorded>>

\* variant: the key is inserted as soon as the duplicate test has passed
GoGates_MarksOnEntry(i) ==
    /\ impl = "go" /\ pc[i] = "dup" /\ Alive
    /\ LET run == RunChain(GoLocalChain(req[i], processedRequests))
       IN /\ Step(i, run.gates, run.resp, "deadline")
          /\ processedRequests' =
                IF run.resp = Reply(400, E_DUP) THEN processedRequests
                ELSE Put(processedRequests, RequestID("go", req[i]), now)
    /\ UNCHANGED <<Config, Fine, Environment, now, arrivals, req, waitStart, rateLimits, timers,
                   sweepAt, sent, marked, prior, GlobalHistory>>
\* lines 415-470: isProcessed (under reqMutex.RLock), then target, caller, dataHash
GoGates(i) ==
    /\ impl = "go" /\ pc[i] = "dup" /\ Alive
    /\ LET run == RunChain(GoLocalChain(req[i], processedRequests))
       IN Step(i, run.gates, run.resp, "deadline")
    /\ UNCHANGED <<Config, Fine, Environment, now, arrivals, req, waitStart, Caches, sweepAt,
                   sent, marked, prior, GlobalHistory>>

\* lines 472-484: the deadline against time.Now()
GoDeadline(i) ==
    /\ impl = "go" /\ pc[i] = "deadline" /\ Alive
    /\ LET run == RunChain(GoDeadlineChain(req[i], now))
       IN Step(i, run.gates, run.resp, "probe")
    /\ UNCHANGED <<Config, Fine, Environment, now, arrivals, req, waitStart, Caches, sweepAt,
                   sent, marked, prior, GlobalHistory>>

\* lines 486-500: checkAlreadyMinted
\* variant: the answer of the probe is tested the wrong way round
GoProbeResponse_Inverted(a) ==
    CASE a = "error" -> Reply(500, E_PROBE)
      [] a = "yes"   -> NoResponse
      [] a = "no"    -> Reply(400, E_MINTED_GO)
GoProbeResponse(a) ==
    CASE a = "error" -> Reply(500, E_PROBE)
      [] a = "yes"   -> Reply(400, E_MINTED_GO)
      [] a = "no"    -> NoResponse

\* variant: the probe also refuses a sender one of whose requests is already
\* past the probe
GoProbe_Reserving(i) ==
    /\ impl = "go" /\ pc[i] = "probe" /\ Alive
    /\ \E a \in ProbeAnswers :
          LET busy == \E j \in Handlers \ {i} :
                         /\ pc[j] \in {"fee", "exec", "wait", "mark"}
                         /\ Hex(req[j].from) = Hex(req[i].from)
          IN Respond(i, <<"probe">>,
                     IF busy /\ a = "no" THEN Reply(400, E_MINTED_GO) ELSE GoProbeResponse(a),
                     "fee",
                     [answers[i] EXCEPT !.probe = <<a>>],
                     ErrorBody(IF a = "error" THEN GoDetails(PlainError) ELSE NoDetails))
    /\ UNCHANGED <<Config, Fine, Environment, now, arrivals, req, waitStart, Caches, sweepAt,
                   sent, marked, prior, GlobalHistory>>
GoProbe(i) ==
    /\ impl = "go" /\ pc[i] = "probe" /\ Alive
    /\ \E a \in ProbeAnswers :
          Respond(i, <<"probe">>, GoProbeResponse(a), "fee",
                  [answers[i] EXCEPT !.probe = <<a>>],
                  ErrorBody(IF a = "error" THEN GoDetails(PlainError) ELSE NoDetails))
    /\ UNCHANGED <<Config, Fine, Environment, now, arrivals, req, waitStart, Caches, sweepAt,
                   sent, marked, prior, GlobalHistory>>

\* variant: a failed fetch fails the gate
GoFeeTooHigh_FailsClosed(gasPrice) == gasPrice = -1 \/ gasPrice > MAX_GAS_PRICE
\* variant: a fee equal to the ceiling is refused
GoFeeTooHigh_Inclusive(gasPrice) == gasPrice # -1 /\ gasPrice >= MAX_GAS_PRICE
\* lines 502-519: the ceiling test; a failed fetch skips the comparison
GoFeeTooHigh(gasPrice) == gasPrice # -1 /\ gasPrice > MAX_GAS_PRICE

\* lines 502-524: SuggestGasPrice, the ceiling, the call of executeMetaTransaction
GoFee(i) ==
    /\ impl = "go" /\ pc[i] = "fee" /\ Alive
    /\ \E gasPrice \in FeeAnswers :
          LET heard == [answers[i] EXCEPT !.fee = <<gasPrice>>]
          IN IF GoFeeTooHigh(gasPrice)
             THEN /\ Respond(i, <<"fee">>, Reply(503, E_FEE), "exec", heard,
                             ErrorBody(NoDetails))
                  /\ UNCHANGED lastAdmit
             ELSE Admit(i, heard)
    /\ UNCHANGED <<Config, Fine, Environment, now, arrivals, req, waitStart, Caches, sweepAt,
                   sent, marked, prior, confirmedAt, admitLog, recorded>>

\* executeMetaTransaction, lines 629-645: the gas limit of the transaction
estimatedGas(est) == IF est = -1 THEN defaultGasLimit ELSE (est * 120) \div 100

\* variant: the deadline is tested again before the transaction is sent
GoSubmit_ChecksDeadline(i) ==
    /\ impl = "go" /\ pc[i] = "exec" /\ Alive
    /\ IF now > req[i].deadline
       THEN /\ Step(i, <<"deadline">>, Reply(400, E_EXPIRED), "wait")
            /\ UNCHANGED <<sent, waitStart>>
       ELSE \E est \in EstimateAnswers :
             /\ Respond(i, <<>>, NoResponse, "wait",
                         [answers[i] EXCEPT !.sends = @ + 1, !.estimate = <<est>>,
                                            !.gasLimit = <<estimatedGas(est)>>],
                         NoBody)
             /\ sent' = [sent EXCEPT ![i] = TRUE]
             /\ waitStart' = [waitStart EXCEPT ![i] = now]
    /\ UNCHANGED <<Config, Fine, Environment, now, arrivals, req, Caches, sweepAt, marked, prior, GlobalHistory>>
\* executeMetaTransaction, lines 551-672: pack, nonce, gas price, estimate, sign, send
GoSubmit(i) ==
    /\ impl = "go" /\ pc[i] = "exec" /\ Alive
    /\ \/ \E e \in RpcErrors :
             /\ Respond(i, <<>>, Reply(500, parseError(e)), "wait", answers[i],
                        ErrorBody(GoDetails(e)))
             /\ UNCHANGED <<sent, waitStart>>
       \/ \E est \in EstimateAnswers :
          /\ Respond(i, <<>>, NoResponse, "wait",
                      [answers[i] EXCEPT !.sends = @ + 1, !.estimate = <<est>>,
                                         !.gasLimit = <<estimatedGas(est)>>],
                      NoBody)
          /\ sent' = [sent EXCEPT ![i] = TRUE]
          /\ waitStart' = [waitStart EXCEPT ![i] = now]
    /\ UNCHANGED <<Config, Fine, Environment, now, arrivals, req, Caches, sweepAt, marked, prior, GlobalHistory>>

\* variant: a reverted transaction is submitted again
GoAfterReceipt_Retry(a) ==
    CASE a = "success"  -> [resp |-> NoResponse, next |-> "mark"]
      [] a = "reverted" -> [resp |-> NoResponse, next |-> "exec"]
      [] a = "timeout"  -> [resp |-> Reply(500, parseError(PlainError)), next |-> "done"]
\* lines 675-688 and 524-529: what follows the outcome of waitForReceipt
GoAfterReceipt(a) ==
    CASE a = "success"  -> [resp |-> NoResponse, next |-> "mark"]
      [] a = "reverted" -> [resp |-> Reply(500, parseError(PlainError)), next |-> "done"]
      [] a = "timeout"  -> [resp |-> Reply(500, parseError(PlainError)), next |-> "done"]

\* waitForReceipt, lines 743-760, and the status test of lines 680-684
GoReceipt(i) ==
    /\ impl = "go" /\ pc[i] = "wait" /\ Alive
    /\ \E a \in ReceiptAnswers \cup {"timeout"} :
          /\ (a = "timeout") = (now - waitStart[i] >= receiptTimeout)
          /\ Respond(i, <<>>, GoAfterReceipt(a).resp, GoAfterReceipt(a).next,
                     [answers[i] EXCEPT !.receipt = <<a>>],
                     ErrorBody(GoDetails(PlainError)))
    /\ waitStart' = [waitStart EXCEPT ![i] = 0]
    /\ UNCHANGED <<Config, Fine, Environment, now, arrivals, req, Caches, sweepAt,
                   sent, marked, prior, GlobalHistory>>

\* markProcessed: s.processedRequests[requestID] = time.Now()
markProcessed(m, requestID, t) == Put(m, requestID, t)

\* lines 531-547: markProcessed (under reqMutex.Lock), then the 200 response
GoMark(i) ==
    /\ impl = "go" /\ pc[i] = "mark" /\ Alive
    /\ processedRequests' = markProcessed(processedRequests, RequestID("go", req[i]), now)
    /\ marked' = [marked EXCEPT ![i] = TRUE]
    /\ recorded' = recorded \cup {Slot(req[i])}
    /\ Confirmed(i, answers[i])
    /\ UNCHANGED <<Config, Fine, Environment, now, arrivals, req, waitStart, rateLimits, timers, sweepAt,
                   sent, prior, lastAdmit, admitLog>>

\* variant: entries are kept for the rate-limit window only
cleanProcessed_RateWindow(m, t) == Drop(m, {id \in DOMAIN m : t - m[id] > rateLimitWindow})
\* cleanupRoutine, lines 812-819: the processed-request pass (under reqMutex.Lock)
cleanProcessed(m, t) == Drop(m, {id \in DOMAIN m : t - m[id] > cacheDuration})

\* variant: only the newest timestamp of a window is kept
cleanRateLimits_KeepsNewest(m, t) ==
    LET cutoff == t - rateLimitWindow
        recent(addr) == SelectSeq(m[addr], LAMBDA x : x > cutoff)
        kept == {addr \in DOMAIN m : Len(recent(addr)) # 0}
    IN [addr \in kept |-> <<recent(addr)[Len(recent(addr))]>>]
\* variant: the cutoff is the time of the pass itself
cleanRateLimits_NoWindow(m, t) ==
    LET cutoff == t
        recent(addr) == SelectSeq(m[addr], LAMBDA x : x > cutoff)
        kept == {addr \in DOMAIN m : Len(recent(addr)) # 0}
    IN [addr \in kept |-> recent(addr)]
\* cleanupRoutine, lines 821-837: the rate-limit pass (under rateLimit.mu.Lock)
cleanRateLimits(m, t) ==
    LET cutoff == t - rateLimitWindow
        recent(addr) == SelectSeq(m[addr], LAMBDA x : x > cutoff)
        kept == {addr \in DOMAIN m : Len(recent(addr)) # 0}
    IN [addr \in kept |-> recent(addr)]

\* a tick of the cleanup ticker: `now` is read, then the first pass runs
GoSweepProcessed ==
    /\ impl = "go" /\ sweepAt = -1 /\ Alive
    /\ now >= cleanupInterval
    /\ sweepAt' = now
    /\ processedRequests' = cleanProcessed(processedRequests, now)
    /\ UNCHANGED <<Config, Fine, Environment, now, arrivals, pc, req, resp, waitStart, rateLimits, timers,
                   HandlerHistory, GlobalHistory>>

GoSweepRateLimits ==
    /\ impl = "go" /\ sweepAt # -1 /\ Alive
    /\ rateLimits' = cleanRateLimits(rateLimits, sweepAt)
    /\ sweepAt' = -1
    /\ UNCHANGED <<Config, Fine, Environment, now, arrivals, pc, req, resp, waitStart, processedRequests,
                   timers, HandlerHistory, GlobalHistory>>

(***************************************************************************)
(* JS relay: app.post('/relay'), one event loop.  A step is the code       *)
(* between two awaits.                                                     *)
(***************************************************************************)
\* lines 61-136: everything up to the first await
JsHandle(i) ==
    /\ impl = "js" /\ pc[i] = "recv" /\ DueTimers = {} /\ Alive
    /\ LET adm == RunChain(JsAdmissionChain(req[i], rateLimits, DateNow))
           loc == RunChain(JsLocalChain(req[i], processedRequests, DateNow))
       IN IF adm.resp # NoResponse
          THEN /\ Step(i, adm.gates, adm.resp, "probe")
               /\ UNCHANGED <<rateLimits, admitLog>>
          ELSE /\ Respond(i, adm.gates \o loc.gates, loc.resp, "probe", answers[i],
                          ErrorBody(JsChainDetails(loc.resp)))
               /\ rateLimits' = jsCheckRateLimitMap(rateLimits, req[i].from, DateNow)
               /\ admitLog' = LogAdmission(req[i].from)
    /\ UNCHANGED <<Config, Fine, Environment, now, arrivals, req, waitStart, processedRequests, timers, sweepAt,
                   sent, marked, prior, lastAdmit, confirmedAt, recorded>>

\* lines 138-148: await nftContract.minted(userAddress)
JsProbe(i) ==
    /\ impl = "js" /\ pc[i] = "probe" /\ DueTimers = {} /\ Alive
    /\ \E a \in ProbeAnswers :
          Respond(i, <<"probe">>,
                  CASE a = "error" -> Reply(500, parseError(PlainError))
                    [] a = "yes"   -> Reply(400, E_MINTED_JS)
                    [] a = "no"    -> NoResponse,
                  "fee",
                  [answers[i] EXCEPT !.probe = <<a>>],
                  ErrorBody(IF a = "error" THEN JsDetails(PlainError) ELSE NoDetails))
    /\ UNCHANGED <<Config, Fine, Environment, now, arrivals, req, waitStart, Caches, sweepAt,
                   sent, marked, prior, GlobalHistory>>

\* lines 150-158: the ceiling test
JsFeeTooHigh(gasPrice) == gasPrice > MAX_GAS_PRICE

\* lines 150-186: await provider.getFeeData(), the ceiling, the call of executeForward
JsFee(i) ==
    /\ impl = "js" /\ pc[i] = "fee" /\ DueTimers = {} /\ Alive
    /\ \E gasPrice \in FeeAnswers :
          LET heard == [answers[i] EXCEPT !.fee = <<gasPrice>>]
          IN IF gasPrice = -1
             THEN /\ Respond(i, <<"fee">>, Reply(500, parseError(PlainError)), "exec",
                             heard, ErrorBody(JsDetails(PlainError)))
                  /\ UNCHANGED lastAdmit
             ELSE IF JsFeeTooHigh(gasPrice)
             THEN /\ Respond(i, <<"fee">>, Reply(503, E_FEE), "exec", heard,
                             ErrorBody(NoDetails))
                  /\ UNCHANGED lastAdmit
             ELSE Admit(i, heard)
    /\ UNCHANGED <<Config, Fine, Environment, now, arrivals, req, waitStart, Caches, sweepAt,
                   sent, marked, prior, confirmedAt, admitLog, recorded>>

\* executeForward (meta-exec-lib), lines 171-178: the gas limit is what
\* provider.estimateGas returns; its rejection is thrown to the handler
\* (overrides is empty in the call of part_002:178)
jsGasLimit(est) == est

\* executeForward (meta-exec-lib): allowlist query, estimateGas, sendTransaction
JsSubmit(i) ==
    /\ impl = "js" /\ pc[i] = "exec" /\ DueTimers = {} /\ Alive
    /\ \/ \E e \in RpcErrors :
             /\ Respond(i, <<>>, Reply(500, parseError(e)), "sent", answers[i],
                        ErrorBody(JsDetails(e)))
             /\ UNCHANGED <<sent, waitStart>>
       \/ \E est \in EstimateAnswers :
             IF est = -1
             THEN /\ Respond(i, <<>>, Reply(500, parseError(PlainError)), "sent",
                             [answers[i] EXCEPT !.estimate = <<est>>],
                             ErrorBody(JsDetails(PlainError)))
                  /\ UNCHANGED <<sent, waitStart>>
             ELSE /\ Respond(i, <<>>, NoResponse, "sent",
                             [answers[i] EXCEPT !.sends = @ + 1, !.estimate = <<est>>,
                                                !.gasLimit = <<jsGasLimit(est)>>],
                             NoBody)
                  /\ sent' = [sent EXCEPT ![i] = TRUE]
                  /\ waitStart' = [waitStart EXCEPT ![i] = now]
    /\ UNCHANGED <<Config, Fine, Environment, now, arrivals, req, Caches, sweepAt,
                   marked, prior, GlobalHistory>>

\* lines 191-193: processedRequests.add(requestId); setTimeout(delete, CACHE_DURATION)
JsMark(i) ==
    /\ impl = "js" /\ pc[i] = "sent" /\ DueTimers = {} /\ Alive
    /\ LET requestId == RequestID("js", req[i])
       IN /\ processedRequests' =
                IF Has(processedRequests, requestId) THEN processedRequests
                ELSE Put(processedRequests, requestId, now)
          /\ timers' = timers \cup {[key |-> requestId, at |-> DateNow + CACHE_DURATION]}
    /\ marked' = [marked EXCEPT ![i] = TRUE]
    /\ recorded' = recorded \cup {Slot(req[i])}
    /\ Step(i, <<>>, NoResponse, "wait")
    /\ UNCHANGED <<Config, Fine, Environment, now, arrivals, req, waitStart, rateLimits, sweepAt,
                   sent, prior, lastAdmit, confirmedAt, admitLog>>

\* lines 195-208 and the catch block: await tx.wait()
JsReceipt(i) ==
    /\ impl = "js" /\ pc[i] = "wait" /\ DueTimers = {} /\ Alive
    /\ \E a \in ReceiptAnswers :
          IF a = "reverted"
          THEN /\ Respond(i, <<>>, Reply(500, parseError(PlainError)), "done",
                          [answers[i] EXCEPT !.receipt = <<a>>],
                          ErrorBody(JsDetails(PlainError)))
               /\ UNCHANGED confirmedAt
          ELSE Confirmed(i, [answers[i] EXCEPT !.receipt = <<a>>])
    /\ waitStart' = [waitStart EXCEPT ![i] = 0]
    /\ UNCHANGED <<Config, Fine, Environment, now, arrivals, req, Caches, sweepAt,
                   sent, marked, prior, lastAdmit, admitLog, recorded>>

\* the setTimeout callback of line 193
JsTimer(t) ==
    /\ impl = "js" /\ t \in DueTimers /\ Alive
    /\ processedRequests' = Drop(processedRequests, {t.key})
    /\ timers' = timers \ {t}
    /\ UNCHANGED <<Config, Fine, Environment, now, arrivals, pc, req, resp, waitStart, rateLimits, sweepAt,
                   HandlerHistory, GlobalHistory>>

\* the setInterval callback of lines 259-269
jsCleanRateLimits(m, t) ==
    LET recent(address) == SelectSeq(m[address], LAMBDA time : t - time < RATE_LIMIT_WINDOW)
        kept == {address \in DOMAIN m : Len(recent(address)) # 0}
    IN [address \in kept |-> recent(address)]

JsSweep ==
    /\ impl = "js" /\ DueTimers = {} /\ Alive
    /\ DateNow >= RATE_LIMIT_WINDOW
    /\ rateLimits' = jsCleanRateLimits(rateLimits, DateNow)
    /\ UNCHANGED <<Config, Fine, Environment, now, arrivals, pc, req, resp, waitStart, processedRequests,
                   timers, sweepAt, HandlerHistory, GlobalHistory>>

(***************************************************************************)
(* The caller's connection and the life of the process.  Neither handler   *)
(* reads the request's context: executeMetaTransaction and waitForReceipt  *)
(* run on context.Background(), and the JS handler never looks at the      *)
(* socket.  The callers and the operator of scenario "drain" do these.     *)
(***************************************************************************)
\* the caller closes its connection while its request is being served
Disconnect(i) ==
    /\ scenario = "drain" /\ Alive
    /\ pc[i] \notin {"idle", "done"} /\ connected[i]
    /\ connected' = [connected EXCEPT ![i] = FALSE]
    /\ UNCHANGED <<Config, Fine, lifecycle, now, arrivals, pc, req, resp, waitStart, Caches,
                   sweepAt, HandlerHistory, GlobalHistory>>

\* Go main, lines 259-264: SIGINT or SIGTERM arrives, srv.Shutdown is called with
\* a context of 5 seconds and the listener is closed
GoSignal ==
    /\ impl = "go" /\ scenario = "drain" /\ lifecycle = "serving"
    /\ lifecycle' = "shutdown"
    /\ UNCHANGED <<Config, Fine, connected, now, arrivals, pc, req, resp, waitStart, Caches,
                   sweepAt, HandlerHistory, GlobalHistory>>

\* Go main, lines 266-271: srv.Shutdown returns, because every handler has
\* returned or because its 5 seconds are over (log.Fatal), and the process
\* exits.  A handler in the Executor or in the confirmation wait, which
\* polls for up to two minutes, can outlast the 5 seconds.
GoShutdown ==
    /\ impl = "go" /\ lifecycle = "shutdown"
    /\ \A i \in Handlers : pc[i] \in SlowPositions
    /\ lifecycle' = "exited"
    /\ UNCHANGED <<Config, Fine, connected, now, arrivals, pc, req, resp, waitStart, Caches,
                   sweepAt, HandlerHistory, GlobalHistory>>

\* JS, lines 287-296: process.on('SIGINT' / 'SIGTERM') calls process.exit(0)
JsSignal ==
    /\ impl = "js" /\ scenario = "drain" /\ lifecycle = "serving"
    /\ lifecycle' = "exited"
    /\ UNCHANGED <<Config, Fine, connected, now, arrivals, pc, req, resp, waitStart, Caches,
                   sweepAt, HandlerHistory, GlobalHistory>>

(***************************************************************************)
(* Specification.                                                          *)
(***************************************************************************)
Next ==
    \/ Tick
    \/ \E i \in Handlers : \E r \in NextRequests : Arrive(i, r)
    \/ \E i \in Handlers : GoRateLimit(i)
    \/ \E i \in Handlers : GoGates(i)
    \/ \E i \in Handlers : GoDeadline(i)
    \/ \E i \in Handlers : GoProbe(i)
    \/ \E i \in Handlers : GoFee(i)
    \/ \E i \in Handlers : GoSubmit(i)
    \/ \E i \in Handlers : GoReceipt(i)
    \/ \E i \in Handlers : GoMark(i)
    \/ GoSweepProcessed
    \/ GoSweepRateLimits
    \/ \E i \in Handlers : JsHandle(i)
    \/ \E i \in Handlers : JsProbe(i)
    \/ \E i \in Handlers : JsFee(i)
    \/ \E i \in Handlers : JsSubmit(i)
    \/ \E i \in Handlers : JsMark(i)
    \/ \E i \in Handlers : JsReceipt(i)
    \/ \E t \in timers : JsTimer(t)
    \/ JsSweep
    \/ \E i \in Handlers : Disconnect(i)
    \/ GoSignal
    \/ GoShutdown
    \/ JsSignal

Spec == Init /\ [][Next]_vars

TypeOK ==
    /\ impl \in {"go", "js"}
    /\ scenario \in Scenarios
    /\ now \in Instants(scenario)
    /\ arrivals \in 0..Len(Script(scenario))
    /\ \A i \in Handlers : pc[i] \in Positions
    /\ \A i \in Handlers : resp[i].status \in {0, 200, 400, 429, 500, 503}
    /\ \A a \in DOMAIN rateLimits : Len(rateLimits[a]) <= maxRequestsPerWindow
    /\ sweepAt \in {-1} \cup Instants(scenario)
    /\ connected \in [Handlers -> BOOLEAN]
    /\ lifecycle \in {"serving", "shutdown", "exited"}

(***************************************************************************)
(* The cache operations of the Go relay, step by step.  In Spec a call of  *)
(* checkRateLimit, isProcessed or markProcessed and a pass of              *)
(* cleanupRoutine is one step.  LockSpec takes them apart: a goroutine     *)
(* locks the mutex, reads, writes and unlocks in steps of its own, and     *)
(* the goroutines interleave as the mutexes let them.  What the handler    *)
(* does between isProcessed and markProcessed (lines 425-529) touches      *)
(* neither map and is one step, Serve, with either outcome.                *)
(***************************************************************************)
\* variant: Lock returns whether or not the mutex is held
MutexFree_NoExclusion(holders) == TRUE
\* sync.Mutex.Lock / sync.RWMutex.Lock / RLock return once no goroutine of
\* holders holds the mutex
MutexFree(holders) == holders = {}

Move(i, next) == Step(i, <<>>, NoResponse, next)

LockFrame ==
    <<Config, Environment, Chain, Client, now, arrivals, req, waitStart, timers, sent, prior, lastAdmit,
      confirmedAt>>

\* checkRateLimit, line 764: s.rateLimit.mu.Lock()
RateLock(i) ==
    /\ pc[i] = "recv"
    /\ MutexFree(mutex.rate)
    /\ mutex' = [mutex EXCEPT !.rate = @ \cup {i}]
    /\ Move(i, "rateLocked")
    /\ UNCHANGED <<LockFrame, rateLimits, processedRequests, sweepAt, marked, admitLog,
                   recorded, local, sweeper>>

\* checkRateLimit, lines 767-776: the filter loop over s.rateLimit.requests[address]
RateFilter(i) ==
    /\ pc[i] = "rateLocked"
    /\ local' = [local EXCEPT ![i] =
                    recentRequests(Get(rateLimits, Hex(req[i].from), <<>>), now)]
    /\ Move(i, "rateFiltered")
    /\ UNCHANGED <<LockFrame, rateLimits, processedRequests, sweepAt, marked, admitLog,
                   recorded, mutex, sweeper>>

\* checkRateLimit, lines 778-785, the deferred Unlock, and lines 408-413
RateWrite(i) ==
    /\ pc[i] = "rateFiltered"
    /\ IF Len(local[i]) >= maxRequestsPerWindow
       THEN /\ Step(i, <<"validator", "rate">>, Reply(429, E_RATE), "dup")
            /\ UNCHANGED <<rateLimits, admitLog>>
       ELSE /\ Step(i, <<"validator", "rate">>, NoResponse, "dup")
            /\ rateLimits' = Put(rateLimits, Hex(req[i].from), Append(local[i], now))
            /\ admitLog' = LogAdmission(Hex(req[i].from))
    /\ mutex' = [mutex EXCEPT !.rate = @ \ {i}]
    /\ local' = [local EXCEPT ![i] = <<>>]
    /\ UNCHANGED <<LockFrame, processedRequests, sweepAt, marked, recorded, sweeper>>

\* isProcessed, line 790: s.reqMutex.RLock()
ReqRLock(i) ==
    /\ pc[i] = "dup"
    /\ MutexFree(mutex.reqW)
    /\ mutex' = [mutex EXCEPT !.reqR = @ \cup {i}]
    /\ Move(i, "reqRLocked")
    /\ UNCHANGED <<LockFrame, rateLimits, processedRequests, sweepAt, marked, admitLog,
                   recorded, local, sweeper>>

\* isProcessed, lines 793-794, the deferred RUnlock, and lines 417-423
ReqRead(i) ==
    /\ pc[i] = "reqRLocked"
    /\ Step(i, <<"dup">>,
            IF isProcessed(processedRequests, RequestID("go", req[i]))
            THEN Reply(400, E_DUP) ELSE NoResponse,
            "exec")
    /\ mutex' = [mutex EXCEPT !.reqR = @ \ {i}]
    /\ UNCHANGED <<LockFrame, rateLimits, processedRequests, sweepAt, marked, admitLog,
                   recorded, local, sweeper>>

\* lines 425-529: the other gates, the probe, the fee and the Executor either
\* end the request or return a confirmed transaction
Serve(i) ==
    /\ pc[i] = "exec"
    /\ \E ok \in BOOLEAN :
          Step(i, <<>>, IF ok THEN NoResponse ELSE Reply(500, parseError(PlainError)), "mark")
    /\ UNCHANGED <<LockFrame, rateLimits, processedRequests, sweepAt, marked, admitLog,
                   recorded, Fine>>

\* markProcessed, line 798: s.reqMutex.Lock()
ReqLock(i) ==
    /\ pc[i] = "mark"
    /\ MutexFree(mutex.reqW \cup mutex.reqR)
    /\ mutex' = [mutex EXCEPT !.reqW = @ \cup {i}]
    /\ Move(i, "reqLocked")
    /\ UNCHANGED <<LockFrame, rateLimits, processedRequests, sweepAt, marked, admitLog,
                   recorded, local, sweeper>>

\* markProcessed, line 801, the deferred Unlock, and the 200 response
ReqWrite(i) ==
    /\ pc[i] = "reqLocked"
    /\ processedRequests' = markProcessed(processedRequests, RequestID("go", req[i]), now)
    /\ marked' = [marked EXCEPT ![i] = TRUE]
    /\ recorded' = recorded \cup {Slot(req[i])}
    /\ mutex' = [mutex EXCEPT !.reqW = @ \ {i}]
    /\ Step(i, <<>>, Reply(200, ""), "done")
    /\ UNCHANGED <<LockFrame, rateLimits, sweepAt, admitLog, local, sweeper>>

SweepFrame ==
    <<LockFrame, pc, resp, marked, evaluated, answers, body, admitLog, recorded, local>>

\* cleanupRoutine, lines 809-813: a tick; now := time.Now(); s.reqMutex.Lock()
SweepReqLock ==
    /\ sweeper.at = "idle" /\ now >= cleanupInterval
    /\ MutexFree(mutex.reqW \cup mutex.reqR)
    /\ mutex' = [mutex EXCEPT !.reqW = @ \cup {Cleaner}]
    /\ sweepAt' = now
    /\ sweeper' = [sweeper EXCEPT !.at = "reqLocked"]
    /\ UNCHANGED <<SweepFrame, rateLimits, processedRequests>>

\* cleanupRoutine, lines 814-819: the loop over s.processedRequests; Unlock
SweepReq ==
    /\ sweeper.at = "reqLocked"
    /\ processedRequests' = cleanProcessed(processedRequests, sweepAt)
    /\ mutex' = [mutex EXCEPT !.reqW = @ \ {Cleaner}]
    /\ sweeper' = [sweeper EXCEPT !.at = "between"]
    /\ UNCHANGED <<SweepFrame, rateLimits, sweepAt>>

\* cleanupRoutine, lines 821-823: s.rateLimit.mu.Lock(); the cutoff
SweepRateLock ==
    /\ sweeper.at = "between"
    /\ MutexFree(mutex.rate)
    /\ mutex' = [mutex EXCEPT !.rate = @ \cup {Cleaner}]
    /\ sweeper' = [at |-> "rateLocked", todo |-> DOMAIN rateLimits]
    /\ UNCHANGED <<SweepFrame, rateLimits, processedRequests, sweepAt>>

\* cleanupRoutine, lines 824-836: one iteration of the loop over
\* s.rateLimit.requests
SweepRateOne ==
    /\ sweeper.at = "rateLocked"
    /\ \E addr \in sweeper.todo \cap DOMAIN rateLimits :
          LET one == [a \in {addr} |-> rateLimits[addr]]
              cleaned == cleanRateLimits(one, sweepAt)
          IN /\ rateLimits' = IF addr \in DOMAIN cleaned
                              THEN Put(rateLimits, addr, cleaned[addr])
                              ELSE Drop(rateLimits, {addr})
             /\ sweeper' = [sweeper EXCEPT !.todo = @ \ {addr}]
    /\ UNCHANGED <<SweepFrame, processedRequests, sweepAt, mutex>>

\* cleanupRoutine, line 837: s.rateLimit.mu.Unlock() once the loop is over
SweepRateUnlock ==
    /\ sweeper.at = "rateLocked"
    /\ sweeper.todo \cap DOMAIN rateLimits = {}
    /\ mutex' = [mutex EXCEPT !.rate = @ \ {Cleaner}]
    /\ sweeper' = [at |-> "idle", todo |-> {}]
    /\ sweepAt' = -1
    /\ UNCHANGED <<SweepFrame, rateLimits, processedRequests>>

LockInit ==
    /\ impl = "go"
    /\ scenario = "locks"
    /\ verbose = FALSE
    /\ Start

LockNext ==
    \/ Tick
    \/ \E i \in Handlers : \E r \in NextRequests : Arrive(i, r)
    \/ \E i \in Handlers : RateLock(i)
    \/ \E i \in Handlers : RateFilter(i)
    \/ \E i \in Handlers : RateWrite(i)
    \/ \E i \in Handlers : ReqRLock(i)
    \/ \E i \in Handlers : ReqRead(i)
    \/ \E i \in Handlers : Serve(i)
    \/ \E i \in Handlers : ReqLock(i)
    \/ \E i \in Handlers : ReqWrite(i)
    \/ SweepReqLock
    \/ SweepReq
    \/ SweepRateLock
    \/ SweepRateOne
    \/ SweepRateUnlock

LockSpec == LockInit /\ [][LockNext]_vars

(***************************************************************************)
(* The Executor of the Go relay, step by step.  In Spec the whole of       *)
(* executeMetaTransaction up to SendTransaction is one step, GoSubmit.     *)
(* ExecSpec takes it apart where the relay's own sequence number is        *)
(* concerned: PendingNonceAt reads the network's count, and the network    *)
(* advances the count when SendTransaction hands it a transaction with     *)
(* the next number.  The gates, the confirmation wait and markProcessed    *)
(* are those of Spec.                                                      *)
(***************************************************************************)
\* the numbers read by the handlers that have not yet sent their transaction
Unsent == {relayerNonce[i] : i \in {j \in Handlers : pc[j] = "signed"}}

\* variant: an in-process counter hands out the number after the last one
\* that is in use
PendingNonceAt_Counted(count, inUse) ==
    IF inUse = {} THEN count
    ELSE (CHOOSE n \in inUse : \A m \in inUse : m <= n) + 1
\* lines 616-620: s.client.PendingNonceAt: the count of the network, whatever
\* numbers the other goroutines hold
PendingNonceAt(count, inUse) == count

\* lines 616-660: PendingNonceAt, SuggestGasPrice, EstimateGas, NewTransaction, SignTx
ExecSign(i) ==
    /\ impl = "go" /\ pc[i] = "exec" /\ Alive
    /\ \/ \E e \in RpcErrors :
             /\ Respond(i, <<>>, Reply(500, parseError(e)), "signed", answers[i],
                        ErrorBody(GoDetails(e)))
             /\ UNCHANGED relayerNonce
       \/ \E est \in EstimateAnswers :
             /\ Respond(i, <<>>, NoResponse, "signed",
                        [answers[i] EXCEPT !.estimate = <<est>>,
                                           !.gasLimit = <<estimatedGas(est)>>],
                        NoBody)
             /\ relayerNonce' = [relayerNonce EXCEPT ![i] = PendingNonceAt(pendingCount, Unsent)]
    /\ UNCHANGED <<Config, Environment, Client, mutex, local, sweeper, pendingCount, now, arrivals, req,
                   waitStart, Caches, sweepAt, sent, marked, prior, GlobalHistory>>

\* the node's answers to a transaction whose number is already taken
StaleNonceErrors == { {"nonce"}, PlainError }

\* lines 663-667: SendTransaction.  The node takes the transaction that
\* carries the next number of the account and refuses one whose number is
\* taken.
ExecSend(i) ==
    /\ impl = "go" /\ pc[i] = "signed" /\ Alive
    /\ IF relayerNonce[i] = pendingCount
       THEN /\ Respond(i, <<>>, NoResponse, "wait",
                       [answers[i] EXCEPT !.sends = @ + 1], NoBody)
            /\ pendingCount' = pendingCount + 1
            /\ sent' = [sent EXCEPT ![i] = TRUE]
            /\ waitStart' = [waitStart EXCEPT ![i] = now]
       ELSE /\ \E e \in StaleNonceErrors :
                  Respond(i, <<>>, Reply(500, parseError(e)), "wait", answers[i],
                          ErrorBody(GoDetails(e)))
            /\ UNCHANGED <<pendingCount, sent, waitStart>>
    /\ relayerNonce' = [relayerNonce EXCEPT ![i] = -1]
    /\ UNCHANGED <<Config, Environment, Client, mutex, local, sweeper, now, arrivals, req,
                   Caches, sweepAt, marked, prior, GlobalHistory>>

ExecInit ==
    /\ impl = "go"
    /\ scenario = "exec"
    /\ verbose = FALSE
    /\ Start

ExecNext ==
    \/ Tick
    \/ \E i \in Handlers : \E r \in NextRequests : Arrive(i, r)
    \/ \E i \in Handlers : GoRateLimit(i)
    \/ \E i \in Handlers : GoGates(i)
    \/ \E i \in Handlers : GoDeadline(i)
    \/ \E i \in Handlers : GoProbe(i)
    \/ \E i \in Handlers : GoFee(i)
    \/ \E i \in Handlers : ExecSign(i)
    \/ \E i \in Handlers : ExecSend(i)
    \/ \E i \in Handlers : GoReceipt(i)
    \/ \E i \in Handlers : GoMark(i)
    \/ GoSweepProcessed
    \/ GoSweepRateLimits

ExecSpec == ExecInit /\ [][ExecNext]_vars

(***************************************************************************)
(* The client and the relay.  In PrepareSpec a client calls prepareForward *)
(* and posts the request it assembles from the result; the relay serves    *)
(* it as in Spec.  The clock stands at the first instant, so that no sweep *)
(* and no timer is due.                                                    *)
(***************************************************************************)
\* the client of handler i calls prepareForward
Prepare(i, in) ==
    /\ i <= Concurrency(scenario)
    /\ pc[i] = "idle" /\ ~prepared[i].built
    /\ prepared' = [prepared EXCEPT ![i] = prepareForward(in, now)]
    /\ prepared'[i].built
    /\ UNCHANGED <<Config, Environment, mutex, local, sweeper, Chain, now, arrivals, pc, req,
                   resp, waitStart, Caches, sweepAt, HandlerHistory, GlobalHistory>>

\* and posts the request
Post(i) ==
    /\ prepared[i].built
    /\ Arrive(i, Assemble(prepared[i]))

PrepareInit ==
    /\ impl \in {"go", "js"}
    /\ scenario = "prepare"
    /\ verbose = FALSE
    /\ Start

PrepareNext ==
    \/ \E i \in Handlers : \E in \in PrepareInputs : Prepare(i, in)
    \/ \E i \in Handlers : Post(i)
    \/ \E i \in Handlers : GoRateLimit(i)
    \/ \E i \in Handlers : GoGates(i)
    \/ \E i \in Handlers : GoDeadline(i)
    \/ \E i \in Handlers : GoProbe(i)
    \/ \E i \in Handlers : GoFee(i)
    \/ \E i \in Handlers : GoSubmit(i)
    \/ \E i \in Handlers : GoReceipt(i)
    \/ \E i \in Handlers : GoMark(i)
    \/ \E i \in Handlers : JsHandle(i)
    \/ \E i \in Handlers : JsProbe(i)
    \/ \E i \in Handlers : JsFee(i)
    \/ \E i \in Handlers : JsSubmit(i)
    \/ \E i \in Handlers : JsMark(i)
    \/ \E i \in Handlers : JsReceipt(i)

PrepareSpec == PrepareInit /\ [][PrepareNext]_vars

(***************************************************************************)
(* Vocabulary of the properties.                                           *)
(***************************************************************************)
InFlight(i) == pc[i] \notin {"idle", "done"}
Key(i) == RequestID(impl, req[i])
Evaluated(i, g) == \E k \in 1..Len(evaluated[i]) : evaluated[i][k] = g
\* the request was handed to the Executor
Admitted(i) == Evaluated(i, "executor")
Answered(i, r) == pc[i] = "done" /\ resp[i] = r

StructurallyValid(r) == r.shape = "ok" /\ r.signature # "" /\ r.callData # ""
CallerDiffers(r) == ToLower(r.caller) # ToLower(relayerAddress)
HashDiffers(r) ==
    r.dataHash = Absent \/ r.dataHash = "" \/ ToLower(r.dataHash) # Keccak256(r.callData)

\* admissions of the rate limiter for the address in the 60 seconds up to t
RecentAdmissions(address, t) ==
    LET log == Get(admitLog, address, <<>>)
    IN Cardinality({k \in 1..Len(log) : t - log[k] < rateLimitWindow})

IsPrefix(s, t) == Len(s) <= Len(t) /\ \A k \in 1..Len(s) : s[k] = t[k]

\* the order of the gates, section 2 of the specification
GateOrder == <<"validator", "rate", "dup", "target", "caller", "hash", "deadline",
               "probe", "fee", "executor">>

\* the responses by which each gate ends a request
GateResponses(g) ==
    CASE g = "validator" -> {Reply(400, E_BODY), Reply(400, E_MISSING), Reply(500, E_INTERNAL),
                             Aborted}
      [] g = "rate"      -> {Reply(429, E_RATE)}
      [] g = "dup"       -> {Reply(400, E_DUP)}
      [] g = "target"    -> {Reply(400, E_TARGET), Reply(500, "Transaction failed")}
      [] g = "caller"    -> {Reply(400, E_CALLER), Reply(500, "Transaction failed")}
      [] g = "hash"      -> {Reply(400, E_HASH)}
      [] g = "deadline"  -> {Reply(400, E_EXPIRED)}
      [] g = "probe"     -> {Reply(400, E_MINTED_GO), Reply(400, E_MINTED_JS),
                             Reply(500, E_PROBE), Reply(500, "Transaction failed")}
      [] g = "fee"       -> {Reply(503, E_FEE), Reply(500, "Transaction failed")}
      [] g = "executor"  -> {Reply(200, "")} \cup
                            {Reply(500, parseError(e)) : e \in RpcErrors}

(***************************************************************************)
(* C1.  Of two concurrently served requests with the same (sender, nonce)  *)
(* at most one reaches the Executor: never have both submitted their       *)
(* transaction.  The code tests the key before the network calls and       *)
(* inserts it after the submission, so both pass: violated.                *)
(***************************************************************************)
C1_OnlyOneSubmits ==
    \A i, j \in Handlers :
        (i # j /\ InFlight(i) /\ InFlight(j) /\ Key(i) = Key(j)) => ~(sent[i] /\ sent[j])

(***************************************************************************)
(* C2.  A request that arrives less than five minutes after the Executor   *)
(* was invoked for its (sender, nonce) is never handed to the Executor,    *)
(* whatever the outcome of the earlier attempt.  Violated: a failed        *)
(* attempt leaves no record (Go: every failure; JS: a failed submission).  *)
(***************************************************************************)
C2_AtMostOncePerWindow ==
    \A i \in Handlers :
        (prior[i].admit # -1 /\ prior[i].at - prior[i].admit < cacheDuration)
            => ~Admitted(i)

(***************************************************************************)
(* C3.  The key of a request is in the processed-request cache before its  *)
(* transaction is submitted: whenever the transaction of a request has     *)
(* been submitted, that request has inserted its key.  Violated: both      *)
(* relays insert the key after the submission.                             *)
(***************************************************************************)
C3_MarkedBeforeSubmitted ==
    \A i \in Handlers : sent[i] => marked[i]

(***************************************************************************)
(* C4.  An authorization that was answered Confirmed and is submitted      *)
(* again less than five minutes after the relay received the confirmed     *)
(* request does not reach the Executor and, unless the sender is rate      *)
(* limited, is answered 400 DuplicateRequest.                              *)
(***************************************************************************)
C4_ReplayAfterConfirmed ==
    \A i \in Handlers :
        (WellFormed(req[i]) /\ prior[i].ok # -1 /\ prior[i].at - prior[i].ok < cacheDuration)
            => /\ ~Admitted(i)
               /\ (pc[i] = "done" /\ resp[i].status # 429) => resp[i] = Reply(400, E_DUP)

\* a replay, later than but within five minutes of the confirmed request, was
\* answered DuplicateRequest
C4_Witness ==
    \E i \in Handlers :
        /\ WellFormed(req[i])
        /\ prior[i].ok # -1 /\ prior[i].at > prior[i].ok
        /\ prior[i].at - prior[i].ok < cacheDuration
        /\ Answered(i, Reply(400, E_DUP))

(***************************************************************************)
(* C5.  The rate limiter is a sliding window: a structurally valid request *)
(* is answered 429 RateLimited when five requests of its sender were       *)
(* admitted less than 60 seconds before it, and is admitted (and counted)  *)
(* otherwise, in particular once 60 seconds have passed since the oldest   *)
(* of five.                                                                *)
(***************************************************************************)
C5_SixthRejectedThenAdmitted ==
    [][\A i \in Handlers :
          (pc[i] = "recv" /\ pc'[i] # "recv" /\ StructurallyValid(req[i])) =>
             LET address == RateKey(impl, req[i])
                 n == RecentAdmissions(address, now)
             IN /\ n >= 5 => /\ pc'[i] = "done" /\ resp'[i] = Reply(429, E_RATE)
                             /\ admitLog' = admitLog
                /\ n < 5 => /\ resp'[i] # Reply(429, E_RATE)
                            /\ Len(admitLog'[address]) = Len(Get(admitLog, address, <<>>)) + 1]_vars

\* five requests of a sender were admitted, a further one was answered 429 and,
\* later, yet another one was admitted
C5_Witness ==
    \E i \in Handlers :
        /\ Answered(i, Reply(429, E_RATE))
        /\ Len(Get(admitLog, RateKey(impl, req[i]), <<>>)) >= 6

(***************************************************************************)
(* C6.  For every sender and every trailing 60-second window, the number   *)
(* of requests the rate limiter admitted in the window is at most 5,       *)
(* whatever the interleaving of the handlers and of the cleanup sweep.     *)
(***************************************************************************)
C6_WindowNeverExceedsLimit ==
    \A a \in DOMAIN admitLog :
        \A k \in 1..Len(admitLog[a]) :
            Cardinality({j \in 1..k : admitLog[a][k] - admitLog[a][j] < rateLimitWindow})
                <= maxRequestsPerWindow

\* two requests of one sender wait at the rate limiter while only one more
\* fits in the window
C6_Witness ==
    \E i, j \in Handlers :
        /\ i # j /\ pc[i] = "recv" /\ pc[j] = "recv"
        /\ StructurallyValid(req[i]) /\ StructurallyValid(req[j])
        /\ RateKey(impl, req[i]) = RateKey(impl, req[j])
        /\ RecentAdmissions(RateKey(impl, req[i]), now) = 4

C8_HashMismatchRejected ==
    \A i \in Handlers :
        (req[i].shape = "ok" /\ HashDiffers(req[i])) =>
            /\ ~Admitted(i)
            /\ Evaluated(i, "hash") => Answered(i, Reply(400, E_HASH))

(***************************************************************************)
(* C9.  A request whose deadline is earlier than the time of its admission *)
(* never has the precondition probe issued for it; the deadline gate       *)
(* answers it 400 Expired.                                                 *)
(***************************************************************************)
C9_ExpiredBeforeProbe ==
    \A i \in Handlers :
        (req[i].shape = "ok" /\ req[i].deadline < prior[i].at) =>
            /\ ~Evaluated(i, "probe")
            /\ pc[i] \notin {"probe", "fee", "exec", "sent", "wait", "mark"}
            /\ Evaluated(i, "deadline") => Answered(i, Reply(400, E_EXPIRED))

C9_Witness ==
    \E i \in Handlers :
        /\ Answered(i, Reply(400, E_EXPIRED))
        /\ req[i].deadline < prior[i].at
        /\ evaluated[i][Len(evaluated[i])] = "deadline"

(***************************************************************************)
(* C10.  A request whose caller is not the relay's identity, compared      *)
(* without regard to letter case, never reaches the Executor, and the      *)
(* caller gate answers it 400 InvalidCaller, for every value of the        *)
(* signature; a caller that differs from the identity in letter case only  *)
(* is not rejected as InvalidCaller.                                       *)
(***************************************************************************)
C10_InvalidCaller ==
    \A i \in Handlers :
        /\ (req[i].shape = "ok" /\ CallerDiffers(req[i])) =>
              /\ ~Admitted(i) /\ ~sent[i]
              /\ Evaluated(i, "caller") => Answered(i, Reply(400, E_CALLER))
        /\ Answered(i, Reply(400, E_CALLER)) => CallerDiffers(req[i])

C10_Witness ==
    \E i \in Handlers :
        /\ Answered(i, Reply(400, E_CALLER))
        /\ CallerDiffers(req[i])
        /\ req[i].signature = "0xs2"

(***************************************************************************)
(* C11.  A request for which the fee gate fetched a fee above the ceiling  *)
(* of 100 gwei is answered 503 FeeTooHigh, is not handed to the Executor   *)
(* and has no transaction submitted; one for which it fetched exactly the  *)
(* ceiling is handed to the Executor.                                      *)
(***************************************************************************)
C11_FeeCeiling ==
    \A i \in Handlers :
        answers[i].fee # <<>> =>
            LET gasPrice == answers[i].fee[1]
            IN /\ gasPrice > MAX_GAS_PRICE =>
                     /\ Answered(i, Reply(503, E_FEE))
                     /\ ~Admitted(i) /\ ~sent[i] /\ answers[i].sends = 0
               /\ gasPrice = MAX_GAS_PRICE => Admitted(i)

C11_Witness ==
    \E i \in Handlers :
        /\ answers[i].fee # <<>> /\ answers[i].fee[1] > MAX_GAS_PRICE
        /\ Answered(i, Reply(503, E_FEE))

(***************************************************************************)
(* C12.  The step in which the probe answers leaves the rate windows and   *)
(* the processed-request cache as they were; when the probe answers that   *)
(* the sender has already minted, that step ends the request with a 400    *)
(* already-minted response, the fee gate and the Executor not having run.  *)
(***************************************************************************)
C12_AlreadyCompleted ==
    [][\A i \in Handlers :
          (pc[i] = "probe" /\ pc'[i] # "probe") =>
             /\ rateLimits' = rateLimits
             /\ processedRequests' = processedRequests
             /\ timers' = timers
             /\ answers'[i].probe = <<"yes">> =>
                   /\ pc'[i] = "done"
                   /\ resp'[i] \in {Reply(400, E_MINTED_GO), Reply(400, E_MINTED_JS)}
                   /\ evaluated'[i][Len(evaluated'[i])] = "probe"
                   /\ answers'[i].fee = <<>>
                   /\ ~sent'[i]]_vars

C12_Witness ==
    \E i \in Handlers :
        /\ answers[i].probe = <<"yes">>
        /\ pc[i] = "done" /\ resp[i].status = 400
        /\ rateLimits # EmptyMap

(***************************************************************************)
(* C13.  A request with the configured target, the hash of its call data,  *)
(* the relay as caller and a deadline not yet passed, which the rate       *)
(* limiter and the duplicate test let through, passes the target, caller,  *)
(* hash and deadline gates; if the probe answers not minted and the fee is *)
(* at most the ceiling it is handed to the Executor; and if its            *)
(* transaction is confirmed it is answered 200 with success = true, the    *)
(* transaction hash, the block number and the gas used.                    *)
(***************************************************************************)
C13_ValidRequestConfirmed ==
    \A i \in Handlers :
        (/\ WellFormed(req[i]) /\ req[i].deadline >= prior[i].at
         /\ Evaluated(i, "dup") /\ ~Answered(i, Reply(400, E_DUP))) =>
            /\ pc[i] = "done" =>
                  resp[i] \notin {Reply(400, E_BODY), Reply(400, E_MISSING), Reply(429, E_RATE),
                                  Reply(400, E_TARGET), Reply(400, E_CALLER),
                                  Reply(400, E_HASH), Reply(400, E_EXPIRED)}
            /\ (/\ answers[i].probe = <<"no">> /\ answers[i].fee # <<>>
                /\ answers[i].fee[1] \in 0..MAX_GAS_PRICE) => Admitted(i)
            /\ (answers[i].receipt = <<"success">> /\ pc[i] = "done") =>
                  /\ resp[i].status = 200
                  /\ body[i].success
                  /\ {"txHash", "blockNumber", "gasUsed"} \subseteq body[i].fields

C13_Witness ==
    \E i \in Handlers :
        /\ WellFormed(req[i]) /\ req[i].deadline = prior[i].at + 3600
        /\ prior[i].admit = -1
        /\ Admitted(i) /\ answers[i].receipt = <<"success">>
        /\ Answered(i, Reply(200, ""))

(***************************************************************************)
(* C14.  No request has more than one transaction submitted, and a request *)
(* whose transaction was submitted and whose receipt reports a failed      *)
(* execution is answered 500, one transaction having been submitted.       *)
(***************************************************************************)
C14_RevertedNoRetry ==
    \A i \in Handlers :
        /\ answers[i].sends <= 1
        /\ answers[i].receipt = <<"reverted">> =>
              /\ pc[i] = "done" /\ resp[i].status = 500 /\ ~body[i].success
              /\ answers[i].sends = 1

C14_Witness ==
    \E i \in Handlers :
        /\ answers[i].receipt = <<"reverted">>
        /\ pc[i] = "done" /\ resp[i].status = 500 /\ answers[i].sends = 1

(***************************************************************************)
(* C15.  The wait for the receipt ends in TIMEOUT once two minutes have    *)
(* passed since the submission: a handler that leaves the wait two minutes *)
(* or more after it submitted its transaction leaves it with the timeout   *)
(* outcome, answered 500.  Violated by the JS relay, whose tx.wait() has   *)
(* no time limit.                                                          *)
(***************************************************************************)
C15_WaitBounded ==
    [][\A i \in Handlers :
          (pc[i] = "wait" /\ pc'[i] # "wait" /\ now - waitStart[i] >= receiptTimeout) =>
             /\ answers'[i].receipt = <<"timeout">>
             /\ pc'[i] = "done" /\ resp'[i].status = 500]_vars

(***************************************************************************)
(* C16.  A request whose requestID was, when the request arrived, in the   *)
(* processed-request cache with a time more than five minutes old is not   *)
(* answered DuplicateRequest.  Violated by the Go relay: isProcessed tests *)
(* presence only, so the entry counts until the sweep removes it.          *)
(***************************************************************************)
C16_LazyExpiry ==
    \A i \in Handlers :
        (prior[i].rec # -1 /\ prior[i].at - prior[i].rec > cacheDuration)
            => ~Answered(i, Reply(400, E_DUP))

(***************************************************************************)
(* C17.  The duplicate guard tells authorizations apart by (from, space,   *)
(* nonce): a request is answered DuplicateRequest only if a request with   *)
(* the same triple has been recorded.  Violated: both relays build the     *)
(* requestID from the sender and the nonce alone.                          *)
(***************************************************************************)
C17_SlotIncludesSpace ==
    \A i \in Handlers :
        Answered(i, Reply(400, E_DUP)) => Slot(req[i]) \in recorded

(***************************************************************************)
(* C18.  The status of a response is determined by the kind of outcome:    *)
(* a malformed body or missing fields 400; rate limit exceeded 429; a      *)
(* duplicate, a wrong target, a wrong caller, a hash mismatch, an expired  *)
(* deadline and an already completed mint 400; a fee above the ceiling     *)
(* 503; a failed execution or confirmation 500; success 200 with           *)
(* success=true; every other response has success=false.                   *)
(***************************************************************************)
\* the request ended at gate g
EndedAt(i, g) ==
    /\ pc[i] = "done"
    /\ evaluated[i] # <<>>
    /\ evaluated[i][Len(evaluated[i])] = g

LocalGates == {"dup", "target", "caller", "hash", "deadline"}

C18_StatusTable ==
    \A i \in Handlers :
        pc[i] = "done" =>
            /\ ~StructurallyValid(req[i]) => resp[i].status = 400
            /\ EndedAt(i, "rate") => resp[i].status = 429
            /\ \A g \in LocalGates : EndedAt(i, g) => resp[i].status = 400
            /\ answers[i].probe = <<"yes">> => resp[i].status = 400
            /\ (answers[i].fee # <<>> /\ answers[i].fee[1] > MAX_GAS_PRICE) =>
                  resp[i].status = 503
            /\ (Admitted(i) /\ answers[i].receipt # <<"success">>) => resp[i].status = 500
            /\ answers[i].receipt = <<"success">> =>
                  resp[i].status = 200 /\ body[i].success
            /\ resp[i].status # 200 => ~body[i].success

(***************************************************************************)
(* C19.  The error message of an error response is one of the fixed        *)
(* vocabulary, and the text of the underlying error is in the response     *)
(* only as details and only when verbose output is configured.             *)
(***************************************************************************)
ErrorVocabulary ==
    {E_BODY, E_MISSING, E_RATE, E_DUP, E_TARGET, E_CALLER, E_HASH, E_EXPIRED,
     E_MINTED_GO, E_MINTED_JS, E_PROBE, E_FEE, E_INTERNAL}
        \cup {parseError(e) : e \in RpcErrors \cup {PlainError}}

C19_DetailsOnlyWhenVerbose ==
    \A i \in Handlers :
        (pc[i] = "done" /\ resp[i].status \notin {0, 200}) =>
            /\ resp[i].error \in ErrorVocabulary
            /\ ~verbose => body[i].details = NoDetails

(***************************************************************************)
(* C20.  A request whose body is malformed or lacks a required part (the   *)
(* forward authorization or one of its fields, the signature, the call     *)
(* data) is answered 400 by the validator, and answering it leaves the     *)
(* rate windows and the idempotency cache as they were.                    *)
(***************************************************************************)
\* every required part of the body is present
Complete(r) == StructurallyValid(r) /\ r.to # Absent

C20_StructuralRejection ==
    [][\A i \in Handlers :
          (pc[i] = "recv" /\ pc'[i] # "recv" /\ ~Complete(req[i])) =>
             /\ pc'[i] = "done" /\ resp'[i].status = 400
             /\ evaluated'[i] = <<"validator">>
             /\ UNCHANGED <<rateLimits, processedRequests>>]_vars

(***************************************************************************)
(* C21.  Once a request was handed to the Executor, a caller that has      *)
(* closed its connection changes nothing: the transaction is still         *)
(* submitted, the confirmation wait still ends by a receipt or, exactly    *)
(* when 2 minutes have passed, by its timeout, and a confirmed request is  *)
(* still recorded in the idempotency cache.                                *)
(***************************************************************************)
C21_DisconnectIgnored ==
    [][\A i \in Handlers :
          (~connected[i] /\ Admitted(i) /\ pc'[i] # pc[i]) =>
             /\ pc[i] = "exec" =>
                   \/ answers'[i].sends = answers[i].sends + 1
                   \/ pc'[i] = "done" /\ resp'[i].status = 500
             /\ pc[i] = "wait" =>
                   /\ answers'[i].receipt \in {<<"success">>, <<"reverted">>, <<"timeout">>}
                   /\ (answers'[i].receipt = <<"timeout">>)
                         <=> (now - waitStart[i] >= receiptTimeout)
             /\ (pc'[i] = "done" /\ answers'[i].receipt = <<"success">>) =>
                   Slot(req[i]) \in recorded']_vars

(***************************************************************************)
(* C22.  After a termination signal the relay accepts no new request and   *)
(* exits only when every request in flight has had its outcome: no request *)
(* that was handed to the Executor is left without its response.           *)
(***************************************************************************)
C22_DrainBeforeExit ==
    lifecycle = "exited" =>
        \A i \in Handlers : Admitted(i) => pc[i] = "done"

(***************************************************************************)
(* C23.  The gas limit of the forwarding transaction is the raw estimate   *)
(* plus 20% (estimate * 120 / 100, in integers) when the estimation        *)
(* succeeds and the default of 500000 when it fails; a failed estimation   *)
(* does not end the request.                                               *)
(***************************************************************************)
C23_GasLimit ==
    \A i \in Handlers :
        answers[i].estimate # <<>> =>
            LET est == answers[i].estimate[1]
            IN /\ answers[i].sends >= 1
               /\ est = -1 => answers[i].gasLimit = <<500000>>
               /\ est # -1 => answers[i].gasLimit = <<(est * 120) \div 100>>

(***************************************************************************)
(* C24.  The classifier maps every failure of the lower layers to an entry *)
(* of the fixed vocabulary: a failed submission, a reverted transaction    *)
(* and a confirmation timeout each to an entry of its own, a failure of    *)
(* no known pattern to the catch-all 'Transaction failed'; the first       *)
(* pattern, in the fixed order, that occurs in the text decides.           *)
(***************************************************************************)
\* the patterns in the order the classifier tests them, with their entries
ClassifierOrder ==
    << <<"Already minted", "This address has already minted an NFT">>,
       <<"insufficient funds", "Relayer has insufficient funds">>,
       <<"nonce", "Invalid nonce or nonce already used">>,
       <<"signature", "Invalid signature">>,
       <<"deadline", "Transaction deadline expired">>,
       <<"dataHash", "Invalid data hash">>,
       <<"caller", "Invalid caller address">> >>

CatchAll == "Transaction failed"

\* the entry of the first pattern of the order that occurs in e
FirstMatch(e) ==
    LET hits == {k \in 1..Len(ClassifierOrder) : ClassifierOrder[k][1] \in e}
    IN IF hits = {} THEN CatchAll
       ELSE ClassifierOrder[CHOOSE k \in hits : \A l \in hits : k <= l][2]

\* the kind of failure that ended an admitted request
FailureKind(i) ==
    IF pc[i] # "done" \/ ~Admitted(i) \/ resp[i].status = 200 THEN "none"
    ELSE IF answers[i].receipt = <<"reverted">> THEN "reverted"
    ELSE IF answers[i].receipt = <<"timeout">> THEN "timeout"
    ELSE "submission"

C24_ClassifierKinds ==
    /\ \A e \in SUBSET {"Already minted", "insufficient funds", "nonce", "caller"} :
          parseError(e) = FirstMatch(e)
    /\ \A i \in Handlers :
          FailureKind(i) # "none" =>
             /\ resp[i].error \in ErrorVocabulary
             /\ FailureKind(i) \in {"reverted", "timeout"} => resp[i].error # CatchAll
    /\ \A i, j \in Handlers :
          (FailureKind(i) # "none" /\ FailureKind(j) # "none"
             /\ FailureKind(i) # FailureKind(j)) => resp[i].error # resp[j].error

(***************************************************************************)
(* C25.  A structurally valid request that the rate limiter admits is      *)
(* counted in its sender's window whatever a later gate answers, so the    *)
(* sixth of six invalid requests of a sender within a minute is answered   *)
(* 429 after five answers 400; a request answered 429 adds no timestamp,   *)
(* and a later gate that rejects takes none away.                          *)
(***************************************************************************)
\* the timestamps of a window that are less than a window old
Fresh(w) ==
    IF impl = "go"
    THEN SelectSeq(w, LAMBDA x : now - x < 60)
    ELSE SelectSeq(w, LAMBDA x : now * 1000 - x < 60000)

Younger(key) == Fresh(Get(rateLimits, key, <<>>))

C25_CountedWhateverFollows ==
    [][\A i \in Handlers :
          /\ (pc[i] = "recv" /\ pc'[i] # "recv" /\ StructurallyValid(req[i])) =>
                LET key == RateKey(impl, req[i])
                IN IF Len(Younger(key)) >= 5
                   THEN /\ pc'[i] = "done" /\ resp'[i].status = 429
                        /\ rateLimits' = rateLimits
                   ELSE /\ resp'[i].status # 429
                        /\ Len(rateLimits'[key]) = Len(Younger(key)) + 1
          /\ (pc[i] \notin {"idle", "done", "recv"} /\ pc'[i] = "done") =>
                rateLimits' = rateLimits]_vars

\* five requests with a wrong caller were answered 400 and counted, the sixth
\* is answered 429
C25_Witness ==
    \E i \in Handlers :
        /\ req[i].caller = "0xbad"
        /\ Answered(i, Reply(429, E_RATE))
        /\ Len(Get(rateLimits, RateKey(impl, req[i]), <<>>)) = 5
        /\ lastAdmit = EmptyMap
        /\ arrivals = 6

(***************************************************************************)
(* C26.  The deadline gate lets a request pass exactly when the wall clock *)
(* in seconds is at most its deadline: evaluated in the second of the      *)
(* deadline the request is not Expired, evaluated one second later it is.  *)
(***************************************************************************)
C26_DeadlineInclusive ==
    [][\A i \in Handlers :
          (~Evaluated(i, "deadline") /\ Evaluated(i, "deadline")') =>
             ((pc'[i] = "done" /\ resp'[i] = Reply(400, E_EXPIRED))
                 <=> now > req[i].deadline)]_vars

\* a request evaluated in the second of its deadline went on to the Executor
C26_Witness ==
    \E i \in Handlers :
        /\ req[i].deadline = now /\ prior[i].at = now
        /\ Evaluated(i, "deadline")
        /\ Admitted(i)

(***************************************************************************)
(* C27.  The cleanup sweep runs on the 60-second ticker and removes only   *)
(* what has expired: an idempotency entry only if it is older than 5       *)
(* minutes, a timestamp of a rate window only if it is 60 seconds old or   *)
(* older, a sender's window only when no timestamp of it remains; what has *)
(* not expired is left as it was.                                          *)
(***************************************************************************)
\* a step of the sweep: a pass of cleanupRoutine (Go), the setInterval
\* callback (JS)
SweepStep ==
    \/ sweepAt' # sweepAt
    \/ /\ impl = "js" /\ rateLimits' # rateLimits
       /\ UNCHANGED <<pc, now, arrivals>>

C27_SweepRemovesOnlyExpired ==
    [][SweepStep =>
          /\ now >= 60
          /\ DOMAIN processedRequests' \subseteq DOMAIN processedRequests
          /\ \A id \in DOMAIN processedRequests :
                IF id \in DOMAIN processedRequests'
                THEN processedRequests'[id] = processedRequests[id]
                ELSE now - processedRequests[id] > 300
          /\ DOMAIN rateLimits' \subseteq DOMAIN rateLimits
          /\ \A a \in DOMAIN rateLimits :
                IF a \in DOMAIN rateLimits'
                THEN /\ Fresh(rateLimits'[a]) = Fresh(rateLimits[a])
                     /\ Len(rateLimits'[a]) <= Len(rateLimits[a])
                     /\ rateLimits'[a] # <<>>
                ELSE Fresh(rateLimits[a]) = <<>>]_vars

\* the sweep has removed the window of a sender whose admissions are all a
\* minute old, and the window of another sender, admitted now, is in the map
C27_Witness ==
    /\ now = 60 /\ sweepAt = -1
    /\ \E a, b \in DOMAIN admitLog :
          /\ a \notin DOMAIN rateLimits
          /\ b \in DOMAIN rateLimits
          /\ Fresh(rateLimits[b]) = rateLimits[b]

(***************************************************************************)
(* C28.  Admission is independent across senders: a step of the handler of *)
(* a request of sender A leaves the rate window of every other sender and  *)
(* the idempotency entries of every other sender as they were, and with    *)
(* them the result of a rate-limit check or duplicate check for them.      *)
(***************************************************************************)
\* what the rate limiter would answer a request of the sender of key a now
RateCheck(m, a) ==
    IF impl = "go" THEN checkRateLimit(m, a, now) ELSE jsCheckRateLimit(m, a, DateNow)

C28_SendersIndependent ==
    [][\A i \in Handlers :
          (pc'[i] # pc[i] /\ req[i].shape = "ok") =>
             /\ \A b \in (DOMAIN rateLimits) \cup (DOMAIN rateLimits') \cup Senders :
                   b # RateKey(impl, req[i]) =>
                      /\ Get(rateLimits', b, <<>>) = Get(rateLimits, b, <<>>)
                      /\ RateCheck(rateLimits', b) = RateCheck(rateLimits, b)
             /\ \A id \in (DOMAIN processedRequests) \cup (DOMAIN processedRequests') :
                   id[1] # RequestID(impl, req[i])[1] =>
                      /\ Has(processedRequests', id) = Has(processedRequests, id)
                      /\ Get(processedRequests', id, -1) = Get(processedRequests, id, -1)]_vars

\* a request of one sender was answered 429 while another sender's request
\* was admitted by the rate limiter, its window holding that one admission
C28_Witness ==
    \E i, j \in Handlers :
        /\ req[i].shape = "ok" /\ req[j].shape = "ok"
        /\ req[i].from # req[j].from
        /\ Answered(i, Reply(429, E_RATE))
        /\ Answered(j, Reply(400, E_CALLER))
        /\ Len(Get(rateLimits, RateKey(impl, req[j]), <<>>)) = 1
        /\ Len(Get(rateLimits, RateKey(impl, req[i]), <<>>)) = 5

(***************************************************************************)
(* C30.  In the Go relay the sweep is invisible to the rate limiter: the   *)
(* rate-limit pass keeps a timestamp exactly when the filter of            *)
(* checkRateLimit would, so that a call of checkRateLimit for any sender,  *)
(* now or later, returns the same and leaves the same window whether or    *)
(* not the pass has run before it.                                         *)
(***************************************************************************)
C30_SweepInvisible ==
    [][(impl = "go" /\ sweepAt # -1 /\ sweepAt' = -1) =>
          \A a \in (DOMAIN rateLimits) \cup {Hex(f) : f \in Senders} :
             \A t \in {u \in Instants(scenario) : u >= now} :
                /\ checkRateLimit(rateLimits', a, t) = checkRateLimit(rateLimits, a, t)
                /\ Get(checkRateLimitMap(rateLimits', a, t), a, <<>>)
                      = Get(checkRateLimitMap(rateLimits, a, t), a, <<>>)]_vars

\* a request awaits checkRateLimit after the sweep has removed the window
\* that earlier calls for its sender had written
C30_Witness ==
    /\ impl = "go" /\ sweepAt = -1
    /\ \E i \in Handlers :
          /\ pc[i] = "recv" /\ StructurallyValid(req[i])
          /\ Hex(req[i].from) \in DOMAIN admitLog
          /\ Hex(req[i].from) \notin DOMAIN rateLimits

(***************************************************************************)
(* C29 (LockSpec).                                                         *)
(***************************************************************************)
\* goroutines between Lock and Unlock of rateLimit.mu
InRate ==
    {i \in Handlers : pc[i] \in {"rateLocked", "rateFiltered"}}
        \cup (IF sweeper.at = "rateLocked" THEN {Cleaner} ELSE {})

\* goroutines between Lock and Unlock of reqMutex
ReqWriters ==
    {i \in Handlers : pc[i] = "reqLocked"}
        \cup (IF sweeper.at = "reqLocked" THEN {Cleaner} ELSE {})

\* goroutines between RLock and RUnlock of reqMutex
ReqReaders == {i \in Handlers : pc[i] = "reqRLocked"}

\* C29: under concurrent callers an operation on the rate-limit state or on
\* the idempotency cache runs alone: no two goroutines are inside the rate
\* limiter at once, nobody reads or writes the idempotency cache while a
\* writer is inside, and no update is lost: whenever nobody is inside the
\* rate limiter, a sender's window holds exactly the admissions of the last
\* 60 seconds, and a record that was written is found by the next reader
C29_CacheOperationsAtomic ==
    /\ Cardinality(InRate) <= 1
    /\ Cardinality(ReqWriters) <= 1
    /\ ReqWriters # {} => ReqReaders = {}
    /\ InRate = {} =>
          \A a \in DOMAIN admitLog : Younger(a) = Fresh(admitLog[a])
    /\ ReqWriters = {} =>
          \A i \in Handlers :
             marked[i] => isProcessed(processedRequests, RequestID("go", req[i]))

\* a handler is inside checkRateLimit with the window it read, a second
\* request of the same sender and the sweeper both wait for the mutex, and
\* the window already holds an admission
C29_Witness ==
    \E i, j \in Handlers :
       /\ i # j
       /\ pc[i] = "rateFiltered" /\ pc[j] = "recv"
       /\ req[i].from = req[j].from
       /\ sweeper.at = "between"
       /\ Len(local[i]) >= 1
       /\ Len(Younger(Hex(req[i].from))) >= 1

(***************************************************************************)
(* C31.  A request that is rejected before the Executor, by whichever gate, *)
(* leaves the processed-request cache as it was; hence every key of the    *)
(* cache was inserted by a request that had reached the Executor, and a    *)
(* request is answered DuplicateRequest only because of such a request.    *)
(***************************************************************************)
C31_RejectionLeavesNoRecord ==
    [][\A i \in Handlers :
          /\ (InFlight(i) /\ pc'[i] = "done" /\ ~Admitted(i)') =>
                /\ processedRequests' = processedRequests
                /\ timers' = timers
          /\ (InFlight(i) /\ resp'[i] = Reply(400, E_DUP)) =>
                \E s \in recorded : s[1] = ToLower(req[i].from) /\ s[3] = req[i].nonce]_vars

\* an earlier request with this (sender, nonce) came to its end without
\* reaching the Executor, and this one has passed the duplicate test and has
\* been handed to the Executor
C31_Witness ==
    \E i \in Handlers :
       /\ scenario = "gates" /\ arrivals = 2
       /\ req[i] = BaseRequest
       /\ prior[i].admit = -1
       /\ Admitted(i)

(***************************************************************************)
(* C32.  Go relay: a request whose fetch of the suggested fee failed at    *)
(* the fee-ceiling gate was not rejected by that gate: it was handed to    *)
(* the Executor, and no 503 was sent.                                      *)
(***************************************************************************)
C32_FeeFetchFailureSkipsGate ==
    \A i \in Handlers :
       (impl = "go" /\ answers[i].fee = <<-1>>) =>
           /\ Admitted(i)
           /\ resp[i] # Reply(503, E_FEE)
           /\ pc[i] \in {"exec", "wait", "mark", "done"}

\* the fetch failed and the transaction of the request has been submitted
C32_Witness ==
    \E i \in Handlers : impl = "go" /\ answers[i].fee = <<-1>> /\ sent[i]

(***************************************************************************)
(* C33 (ExecSpec).  Go relay: nothing in the process serializes the        *)
(* submissions.  A request that reads the relay's sequence number while    *)
(* another one has read it and not yet sent its transaction, no            *)
(* transaction having been sent in between, reads the same number and      *)
(* signs its transaction with it.                                          *)
(***************************************************************************)
C33_SameSequenceNumber ==
    [][\A i, j \in Handlers :
          (/\ i # j
           /\ pc[i] = "exec" /\ pc'[i] = "signed"
           /\ pc[j] = "signed" /\ relayerNonce[j] = pendingCount) =>
              /\ relayerNonce'[i] = relayerNonce[j]
              /\ pc'[j] = "signed"]_vars

\* two requests that differ in sender or nonce have both signed a transaction
\* with the same number, and neither has sent it yet
C33_Witness ==
    \E i, j \in Handlers :
       /\ i # j
       /\ pc[i] = "signed" /\ pc[j] = "signed"
       /\ Key(i) # Key(j)
       /\ relayerNonce[i] = relayerNonce[j]
       /\ relayerNonce[i] >= 0

(***************************************************************************)
(* C34.  The probe and the submission are not one atomic step.  A request  *)
(* whose probe is answered "not completed" passes the probe although       *)
(* another request of the same sender with another nonce has passed it     *)
(* already and is still being served; and such a request, once at the      *)
(* Executor, submits its transaction whenever the network takes it,        *)
(* although the other one has submitted its own.                           *)
(***************************************************************************)
PastProbe(j) == InFlight(j) /\ Evaluated(j, "probe") /\ answers[j].probe = <<"no">>

SameSenderOtherNonce(i, j) ==
    /\ i # j
    /\ ToLower(req[i].from) = ToLower(req[j].from)
    /\ req[i].nonce # req[j].nonce

C34_ProbeNotAtomic ==
    [][\A i, j \in Handlers :
          (SameSenderOtherNonce(i, j) /\ PastProbe(j)) =>
              /\ (pc[i] = "probe" /\ pc'[i] # "probe" /\ answers'[i].probe = <<"no">>) =>
                     pc'[i] = "fee"
              /\ (pc[i] = "exec" /\ pc'[i] # "exec" /\ answers'[i].sends = 1) =>
                     sent'[i] /\ pc'[i] # "done"]_vars

\* two requests of one sender with different nonces have both been told by
\* the probe that the sender has not completed the action, and both have
\* submitted a transaction; neither has a receipt yet
C34_Witness ==
    \E i, j \in Handlers :
       /\ SameSenderOtherNonce(i, j)
       /\ PastProbe(i) /\ PastProbe(j)
       /\ sent[i] /\ sent[j]
       /\ answers[i].receipt = <<>> /\ answers[j].receipt = <<>>

(***************************************************************************)
(* C35.  The deadline is tested once, before the probe, and never again:   *)
(* no request evaluates the deadline gate twice, and a request that has    *)
(* passed it is never answered DeadlineExpired by the relay, however far   *)
(* the clock has moved; if the network takes its transaction, the          *)
(* transaction is submitted, be the deadline over or not.                  *)
(***************************************************************************)
PassedDeadline(i) == InFlight(i) /\ Evaluated(i, "deadline")

C35_DeadlineCheckedOnce ==
    [][\A i \in Handlers :
          /\ Cardinality({k \in 1..Len(evaluated'[i]) : evaluated'[i][k] = "deadline"}) <= 1
          /\ (PassedDeadline(i) /\ pc'[i] = "done") => resp'[i] # Reply(400, E_EXPIRED)
          /\ (PassedDeadline(i) /\ pc[i] = "exec" /\ pc'[i] # "exec"
                 /\ now > req[i].deadline /\ resp'[i] = NoResponse) => sent'[i]]_vars

\* a request passed the deadline gate in time and its transaction was
\* submitted after its deadline
C35_Witness ==
    \E i \in Handlers :
       /\ PassedDeadline(i)
       /\ prior[i].at <= req[i].deadline
       /\ sent[i] /\ answers[i].receipt = <<>>
       /\ waitStart[i] > req[i].deadline

(***************************************************************************)
(* C36.  A request whose from is written with upper case letters, sent     *)
(* after a request with the same address in lower case and the same nonce  *)
(* was recorded in the cache, within the same minute.  JS relay: it has a  *)
(* rate window of its own, is not answered DuplicateRequest, and passes    *)
(* the target and caller gates, which ignore the case.  Go relay: it is    *)
(* counted in the one window of the address and, if admitted by the rate   *)
(* limiter, answered DuplicateRequest.                                     *)
(***************************************************************************)
UpperCaseTwin(i) ==
    /\ req[i].shape = "ok"
    /\ req[i].from # ToLower(req[i].from)
    /\ prior[i].at = 0 /\ now = 0
    /\ Slot(req[i]) \in recorded
    /\ ~marked[i]

C36_KeysAndLetterCase ==
    \A i \in Handlers :
       (UpperCaseTwin(i) /\ Evaluated(i, "rate") /\ resp[i].status # 429) =>
          IF impl = "js"
          THEN /\ Get(rateLimits, req[i].from, <<>>) = <<0>>
               /\ Get(rateLimits, ToLower(req[i].from), <<>>) = <<0>>
               /\ resp[i] \notin {Reply(400, E_DUP), Reply(400, E_TARGET), Reply(400, E_CALLER)}
               /\ Evaluated(i, "hash")
          ELSE /\ DOMAIN rateLimits = {ToLower(req[i].from)}
               /\ rateLimits[ToLower(req[i].from)] = <<0, 0>>
               /\ Evaluated(i, "dup") => resp[i] = Reply(400, E_DUP)

\* the JS relay has handed the upper-case twin of a recorded request to the
\* Executor
C36_Witness ==
    \E i \in Handlers : impl = "js" /\ UpperCaseTwin(i) /\ Admitted(i)

(***************************************************************************)
(* C37 (PrepareSpec).  What prepareForward returns always carries the      *)
(* hash of the call data it returns as dataHash, and its fTuple lists      *)
(* from, to, value, space, nonce, deadline, dataHash, caller in the order  *)
(* of the tuple that the execute signature takes; a request assembled from *)
(* it passes the relay's hash gate.  Violated: with hasCaller false the    *)
(* fTuple has seven fields, the signature eight.                           *)
(***************************************************************************)
ForwardOrder ==
    <<"from", "to", "value", "space", "nonce", "deadline", "dataHash", "caller">>

C37_PreparedAuthorization ==
    \A i \in Handlers :
       prepared[i].built =>
          /\ prepared[i].message.dataHash = Keccak256(prepared[i].callData)
          /\ prepared[i].dataHash = Keccak256(prepared[i].callData)
          /\ Len(prepared[i].fTuple) = Len(EXECUTE_SIG)
          /\ \A k \in 1..Len(prepared[i].fTuple) :
                prepared[i].fTuple[k] = Field(prepared[i].message, ForwardOrder[k])
          /\ (InFlight(i) \/ pc[i] = "done") => resp[i] # Reply(400, E_HASH)

====
